---------------------------- MODULE Spec2Model ----------------------------
(***************************************************************************)
(* A model of two subsystems of certificate-transparency-go:               *)
(*   - fixchain.Logger   (src/fixchain/logger.go), specification SpecLogger *)
(*   - scanner.Fetcher   (src/unnamed/part_005),   specification SpecFetcher*)
(* Each goroutine is a process with a program counter; a step is one       *)
(* access to shared state (a cache, a counter, the WaitGroup, a channel).  *)
(* An unbuffered channel is a rendezvous: sender and receiver step at once.*)
(***************************************************************************)
EXTENDS Integers, Sequences, FiniteSets, Bags, TLC

(***************************************************************************)
(* Bounds of the model.                                                    *)
(***************************************************************************)
\* largest workerCount handed to NewLogger
MaxWorkers == 2
\* number of goroutines calling Logger.QueueChain
NumCallers == 2
\* total number of QueueChain calls over the life of the Logger
MaxCalls == 2
\* largest size the remote log's tree reaches
MaxTree == 2
\* largest FetcherOptions.BatchSize
MaxBatch == 2
\* largest FetcherOptions.ParallelFetch
MaxFetch == 2

(***************************************************************************)
(* Certificates, chains and hashes (src/fixchain/functions_test.go:262-278)*)
(***************************************************************************)
\* sha256.Size
hashSize == 32

\* The digest a fresh SHA-256 state yields: the digest of the empty input,
\* one fixed string of hashSize bytes.
emptyDigest == [i \in 1..hashSize |-> 0]

\* newHash().Sum(b): appends the digest of what was written (nothing) to b.
newHashSum(b) == b \o emptyDigest

\* hash(c): copy(hash[:], newHash().Sum(c.Raw)) keeps the first hashSize bytes.
hash(c) == SubSeq(newHashSum(c.Raw), 1, hashSize)

RECURSIVE written(_)
\* The bytes hashChain writes into h: newHash().Sum(c.Raw) for each c in order.
written(ch) == IF ch = <<>> THEN <<>> ELSE newHashSum(Head(ch).Raw) \o written(Tail(ch))

\* hashChain(ch): SHA-256 of the written bytes; the digest is modelled as an
\* injective tag of its input.
hashChain(ch) == <<"sha256", written(ch)>>

\* Test certificates: googleLeaf, thawteIntermediate, verisignRoot, testLeaf.
googleLeaf == [Raw |-> <<1, 7>>]
thawteIntermediate == [Raw |-> <<2>>]
verisignRoot == [Raw |-> <<3>>]
testLeaf == [Raw |-> <<4>>]

\* A Go slice []*x509.Certificate: nil, or a sequence of certificates.
Slice(certs) == [isNil |-> FALSE, certs |-> certs]

\* A nil []*x509.Certificate.
NilChain == [isNil |-> TRUE, certs |-> <<>>]

\* The chains callers pass to QueueChain: two chains for one leaf, one for another.
Chains == { Slice(<<googleLeaf, thawteIntermediate>>),
            Slice(<<googleLeaf, thawteIntermediate, verisignRoot>>),
            Slice(<<testLeaf>>) }

\* No toPost held by a worker.
NoTask == NilChain

Callers == 1..NumCallers

LogPostFailed == "LogPostFailed"

\* &FixError{Type: LogPostFailed, Chain: p.chain, ...}
FixError(chain) == [Type |-> LogPostFailed, Chain |-> chain]

VARIABLES
  \* ---- Logger (src/fixchain/logger.go:39-61)
  workerCount,      \* number of postServer goroutines started by NewLogger
  postCertCache,    \* keys of postCertCache that map to true
  postChainCache,   \* keys of postChainCache that map to true
  queued, posted, reposted, chainReposted, active,
  wg,               \* counter of l.wg
  cpc,              \* position of each QueueChain caller
  cchain,           \* the chain each caller is queueing
  calls,            \* QueueChain calls started so far
  wpc,              \* position of each postServer worker
  wtask,            \* the toPost each worker holds
  mainPc,           \* the owner of the Logger: run, waiting, waited, closed
  errClosed,        \* the errors channel has been closed
  errorsRecv,       \* bag of FixErrors received from the errors channel
  panicked,         \* a goroutine sent on the closed errors channel
  \* ---- history of the remote log's AddChain
  addCalls,         \* bag of hashChain values of the chains AddChain was invoked with
  addFailed,        \* bag of chains for which AddChain returned an error
  succeeded,        \* leaves (first certificates) of chains AddChain accepted
  \* ---- history of the toPost channel
  enqueued          \* bag of hashChain values of the toPosts sent on l.toPost (and so received)

loggerVars == <<workerCount, postCertCache, postChainCache, queued, posted,
                reposted, chainReposted, active, wg, cpc, cchain, calls, wpc,
                wtask, mainPc, errClosed, errorsRecv, panicked, addCalls,
                addFailed, succeeded, enqueued>>

VARIABLES
  \* ---- Fetcher (src/unnamed/part_005:349-365)
  opts,             \* f.opts: BatchSize, ParallelFetch, StartIndex, EndIndex, Continuous
  sth,              \* f.sth: nil or the cached tree head
  cancelSet,        \* f.cancel is Run's cancel (not NewFetcher's no-op)
  treeSize,         \* size of the remote log's tree
  ctxDone,          \* the context passed to Run is cancelled
  cctxCancelled,    \* cancel() of Run's cctx has been called
  runPc,            \* position of Run
  gpc,              \* position of the range generator goroutine
  gstart, gend,     \* the generator's start and end
  gnext,            \* the fetchRange the generator is about to send
  fpc,              \* position of each fetcher worker
  frange,           \* the fetchRange r of each worker
  startsOk,         \* every EntryBatch passed to fn so far began with the entry of index Start
  delivered,        \* how many times each leaf index was passed to fn
  \* ---- history
  handed,           \* fetchRanges received by workers
  stopped,          \* Stop has returned after Run installed its cancel
  stoppedInRun,     \* Stop has returned after Run was invoked
  fetchFailed,      \* a GetRawEntries request has failed
  emptyBatch,       \* fn has noted a batch of no entries
  notesEmpty        \* the callback fn handed to Run notes the batches of no entries

fetcherVars == <<opts, sth, cancelSet, treeSize, ctxDone, cctxCancelled, runPc,
                 gpc, gstart, gend, gnext, fpc, frange, startsOk, delivered,
                 handed, stopped, stoppedInRun, fetchFailed, emptyBatch, notesEmpty>>

VARIABLES
  \* ---- Logger.RootCerts (src/fixchain/logger.go:104-135)
  roots,            \* l.roots: nil or the pool of accepted roots
  responses,        \* the responses of the log to GetAcceptedRoots, in order
  rootCalls,        \* RootCerts calls made so far
  returned,         \* the pools the RootCerts calls returned, in order
  fatal,            \* log.Fatalf has ended the process
  \* ---- Fixer counters and queue (tested in src/unnamed/part_002:473-566)
  reconstructed, notReconstructed, fixed, notFixed,
  completed,        \* updateCounters calls made so far
  ferrs,            \* the errors handed to the last updateCounters call
  hinted,           \* the certificate and chain of the last Fixer.QueueChain call
  toFix,            \* the toFix last received from f.toFix
  \* ---- the pure functions of package fixchain
  input,            \* the arguments of the call
  output            \* what the call returned and left in its arguments

VARIABLES
  \* ---- HammerCTLog (src/trillian/integration/hammer.go)
  hOperations,      \* cfg.Operations
  hIgnoreErrors,    \* cfg.IgnoreErrors
  hcount,           \* count, the loop variable of HammerCTLog
  hpc,              \* where HammerCTLog is: "loop", "op", "completed", "failed"
  hep,              \* the entry point retryOneOp is performing
  hsth,             \* s.sth, indexed from 0
  hlast,            \* the STH the last successful GetSTH of getSTH returned
  hcalls,           \* calls of retryOneOp made so far
  hreqs,            \* the reqs counter, summed over the entry points
  herrs,            \* the errs counter, summed over the entry points
  hctxDone          \* the context handed to HammerCTLog is cancelled

rootVars == <<roots, responses, rootCalls, returned, fatal>>

hammerVars == <<hOperations, hIgnoreErrors, hcount, hpc, hep, hsth, hlast,
                hcalls, hreqs, herrs, hctxDone>>

fixerVars == <<reconstructed, notReconstructed, fixed, notFixed, completed,
               ferrs, hinted, toFix>>

funcVars == <<input, output>>

fixVars == <<rootVars, fixerVars, funcVars, hammerVars>>

vars == <<loggerVars, fetcherVars, fixVars>>

Workers == 1..workerCount

(***************************************************************************)
(* Logger                                                                  *)
(***************************************************************************)
\* NewLogger: empty caches, zero counters, workerCount postServers waiting.
LoggerInit ==
  /\ workerCount \in 0..MaxWorkers
  /\ postCertCache = {}
  /\ postChainCache = {}
  /\ queued = 0 /\ posted = 0 /\ reposted = 0 /\ chainReposted = 0 /\ active = 0
  /\ wg = 0
  /\ cpc = [c \in Callers |-> "idle"]
  /\ cchain = [c \in Callers |-> NilChain]
  /\ calls = 0
  /\ wpc = [w \in 1..MaxWorkers |-> "recv"]
  /\ wtask = [w \in 1..MaxWorkers |-> NoTask]
  /\ mainPc = "run"
  /\ errClosed = FALSE
  /\ errorsRecv = EmptyBag
  /\ panicked = FALSE
  /\ addCalls = EmptyBag
  /\ addFailed = EmptyBag
  /\ succeeded = {}
  /\ enqueued = EmptyBag

\* QueueChain counting a chain in queued only when postCertCache lets it pass.
QueueChain_CountPassed(c, chain) ==
  /\ mainPc = "run" /\ ~panicked
  /\ cpc[c] = "idle"
  /\ calls < MaxCalls
  /\ calls' = calls + 1
  /\ IF chain.isNil
       THEN UNCHANGED <<queued, reposted, cpc, cchain>>
       ELSE IF hash(chain.certs[1]) \in postCertCache
              THEN /\ reposted' = reposted + 1
                   /\ UNCHANGED <<queued, cpc, cchain>>
              ELSE /\ queued' = queued + 1
                   /\ cpc' = [cpc EXCEPT ![c] = "chain"]
                   /\ cchain' = [cchain EXCEPT ![c] = chain]
                   /\ UNCHANGED reposted
  /\ UNCHANGED <<fixVars, fetcherVars, enqueued, workerCount, postCertCache, postChainCache, posted,
                 chainReposted, active, wg, wpc, wtask, mainPc, errClosed,
                 errorsRecv, panicked, addCalls, addFailed, succeeded>>

\* QueueChain, lines 71-82: nil check, queued++, postCertCache.get(hash(chain[0])).
\* chain[0] of a chain of length zero is an index out of range: the run-time
\* panic ends the process.
QueueChain(c, chain) ==
  /\ mainPc = "run" /\ ~panicked
  /\ cpc[c] = "idle"
  /\ calls < MaxCalls
  /\ calls' = calls + 1
  /\ IF chain.isNil
       THEN UNCHANGED <<queued, reposted, cpc, cchain, panicked>>
       ELSE /\ queued' = queued + 1
            /\ IF chain.certs = <<>>
                 THEN /\ panicked' = TRUE
                      /\ UNCHANGED <<reposted, cpc, cchain>>
                 ELSE /\ IF hash(chain.certs[1]) \in postCertCache
                           THEN /\ reposted' = reposted + 1
                                /\ UNCHANGED <<cpc, cchain>>
                           ELSE /\ cpc' = [cpc EXCEPT ![c] = "chain"]
                                /\ cchain' = [cchain EXCEPT ![c] = chain]
                                /\ UNCHANGED reposted
                      /\ UNCHANGED panicked
  /\ UNCHANGED <<fixVars, fetcherVars, enqueued, workerCount, postCertCache, postChainCache, posted,
                 chainReposted, active, wg, wpc, wtask, mainPc, errClosed,
                 errorsRecv, addCalls, addFailed, succeeded>>

\* QueueChain dropping the chain from postChainCache lookup: it never finds it.
QueueChainGet_NoLookup(c) ==
  /\ cpc[c] = "chain" /\ ~panicked
  /\ cpc' = [cpc EXCEPT ![c] = "set"]
  /\ UNCHANGED <<fixVars, fetcherVars, enqueued, workerCount, postCertCache, postChainCache, queued, posted,
                 reposted, chainReposted, active, wg, cchain, calls, wpc, wtask, mainPc,
                 errClosed, errorsRecv, panicked, addCalls, addFailed, succeeded>>

\* QueueChain, lines 89-93: postChainCache.get(hashChain(chain)).
QueueChainGet(c) ==
  /\ cpc[c] = "chain" /\ ~panicked
  /\ IF hashChain(cchain[c].certs) \in postChainCache
       THEN /\ chainReposted' = chainReposted + 1
            /\ cpc' = [cpc EXCEPT ![c] = "idle"]
            /\ cchain' = [cchain EXCEPT ![c] = NilChain]
       ELSE /\ cpc' = [cpc EXCEPT ![c] = "set"]
            /\ UNCHANGED <<chainReposted, cchain>>
  /\ UNCHANGED <<fixVars, fetcherVars, enqueued, workerCount, postCertCache, postChainCache, queued, posted,
                 reposted, active, wg, calls, wpc, wtask, mainPc,
                 errClosed, errorsRecv, panicked, addCalls, addFailed, succeeded>>

\* QueueChain returning once it has marked the chain, without postToLog.
QueueChainSet_NoPost(c) ==
  /\ cpc[c] = "set" /\ ~panicked
  /\ postChainCache' = postChainCache \cup {hashChain(cchain[c].certs)}
  /\ cpc' = [cpc EXCEPT ![c] = "idle"]
  /\ cchain' = [cchain EXCEPT ![c] = NilChain]
  /\ UNCHANGED <<fixVars, fetcherVars, enqueued, workerCount, postCertCache, queued, posted, reposted,
                 chainReposted, active, wg, calls, wpc, wtask, mainPc,
                 errClosed, errorsRecv, panicked, addCalls, addFailed, succeeded>>

\* QueueChain, line 94: postChainCache.set(h, true).
QueueChainSet(c) ==
  /\ cpc[c] = "set" /\ ~panicked
  /\ postChainCache' = postChainCache \cup {hashChain(cchain[c].certs)}
  /\ cpc' = [cpc EXCEPT ![c] = "add"]
  /\ UNCHANGED <<fixVars, fetcherVars, enqueued, workerCount, postCertCache, queued, posted, reposted,
                 chainReposted, active, wg, cchain, calls, wpc, wtask, mainPc,
                 errClosed, errorsRecv, panicked, addCalls, addFailed, succeeded>>

\* postToLog without its wg.Add(1).
postToLog_NoAdd(c) ==
  /\ cpc[c] = "add" /\ ~panicked
  /\ cpc' = [cpc EXCEPT ![c] = "send"]
  /\ UNCHANGED <<fixVars, fetcherVars, enqueued, workerCount, postCertCache, postChainCache, queued, posted,
                 reposted, chainReposted, active, wg, cchain, calls, wpc, wtask,
                 mainPc, errClosed, errorsRecv, panicked, addCalls, addFailed,
                 succeeded>>

\* postToLog, line 150: l.wg.Add(1).
postToLog(c) ==
  /\ cpc[c] = "add" /\ ~panicked
  /\ wg' = wg + 1
  /\ cpc' = [cpc EXCEPT ![c] = "send"]
  /\ UNCHANGED <<fixVars, fetcherVars, enqueued, workerCount, postCertCache, postChainCache, queued, posted,
                 reposted, chainReposted, active, cchain, calls, wpc, wtask,
                 mainPc, errClosed, errorsRecv, panicked, addCalls, addFailed,
                 succeeded>>

\* postToLog on a buffered toPost: the send returns with no worker receiving.
postServer_Buffered(w, c) ==
  /\ w \in Workers /\ ~panicked
  /\ cpc[c] = "send"
  /\ cpc' = [cpc EXCEPT ![c] = "idle"]
  /\ cchain' = [cchain EXCEPT ![c] = NilChain]
  /\ UNCHANGED <<fixVars, fetcherVars, enqueued, workerCount, postCertCache, postChainCache, queued,
                 posted, reposted, chainReposted, active, wg, calls, wpc, wtask,
                 mainPc, errClosed, errorsRecv, panicked, addCalls, addFailed,
                 succeeded>>

\* postToLog line 151 meets postServer lines 186-187: the unbuffered send
\* l.toPost <- p and the receive c := <-l.toPost, then active++.
postServer(w, c) ==
  /\ w \in Workers /\ ~panicked
  /\ wpc[w] = "recv" /\ cpc[c] = "send"
  /\ wtask' = [wtask EXCEPT ![w] = cchain[c]]
  /\ wpc' = [wpc EXCEPT ![w] = "check"]
  /\ cpc' = [cpc EXCEPT ![c] = "idle"]
  /\ cchain' = [cchain EXCEPT ![c] = NilChain]
  /\ active' = active + 1
  /\ enqueued' = enqueued (+) SetToBag({hashChain(cchain[c].certs)})
  /\ UNCHANGED <<fixVars, fetcherVars, workerCount, postCertCache, postChainCache, queued, posted,
                 reposted, chainReposted, wg, calls, mainPc, errClosed,
                 errorsRecv, panicked, addCalls, addFailed, succeeded>>

postChain_NoRecheck(w) ==
  /\ w \in Workers /\ ~panicked
  /\ wpc[w] = "check"
  /\ wpc' = [wpc EXCEPT ![w] = "limit"]
  /\ UNCHANGED reposted
  /\ UNCHANGED <<fixVars, fetcherVars, enqueued, workerCount, postCertCache, postChainCache, queued, posted,
                 chainReposted, active, wg, cpc, cchain, calls, wtask, mainPc,
                 errClosed, errorsRecv, panicked, addCalls, addFailed, succeeded>>

\* postChain, lines 155-159: the re-check of postCertCache.
postChain(w) ==
  /\ w \in Workers /\ ~panicked
  /\ wpc[w] = "check"
  /\ IF hash(wtask[w].certs[1]) \in postCertCache
       THEN /\ reposted' = reposted + 1
            /\ wpc' = [wpc EXCEPT ![w] = "deactivate"]
       ELSE /\ wpc' = [wpc EXCEPT ![w] = "limit"]
            /\ UNCHANGED reposted
  /\ UNCHANGED <<fixVars, fetcherVars, enqueued, workerCount, postCertCache, postChainCache, queued, posted,
                 chainReposted, active, wg, cpc, cchain, calls, wtask, mainPc,
                 errClosed, errorsRecv, panicked, addCalls, addFailed, succeeded>>

\* postChain, lines 166-168: l.limiter.Wait returns; an error is only logged.
postChainLimiterWait(w) ==
  /\ w \in Workers /\ ~panicked
  /\ wpc[w] = "limit"
  /\ wpc' = [wpc EXCEPT ![w] = "post"]
  /\ UNCHANGED <<fixVars, fetcherVars, enqueued, workerCount, postCertCache, postChainCache, queued, posted,
                 reposted, chainReposted, active, wg, cpc, cchain, calls, wtask,
                 mainPc, errClosed, errorsRecv, panicked, addCalls, addFailed,
                 succeeded>>

\* postChain calling AddChain without counting the chain in posted.
postChainAddChain_NoCount(w) ==
  /\ w \in Workers /\ ~panicked
  /\ wpc[w] = "post"
  /\ addCalls' = addCalls (+) SetToBag({hashChain(wtask[w].certs)})
  /\ wpc' = [wpc EXCEPT ![w] = "reply"]
  /\ UNCHANGED <<fixVars, fetcherVars, enqueued, workerCount, postCertCache, postChainCache, queued, reposted,
                 posted, chainReposted, active, wg, cpc, cchain, calls, wtask, mainPc,
                 errClosed, errorsRecv, panicked, addFailed, succeeded>>

\* postChain, lines 169-170: posted++ and the AddChain request goes out.
postChainAddChain(w) ==
  /\ w \in Workers /\ ~panicked
  /\ wpc[w] = "post"
  /\ posted' = posted + 1
  /\ addCalls' = addCalls (+) SetToBag({hashChain(wtask[w].certs)})
  /\ wpc' = [wpc EXCEPT ![w] = "reply"]
  /\ UNCHANGED <<fixVars, fetcherVars, enqueued, workerCount, postCertCache, postChainCache, queued, reposted,
                 chainReposted, active, wg, cpc, cchain, calls, wtask, mainPc,
                 errClosed, errorsRecv, panicked, addFailed, succeeded>>

\* postChain caching the leaf whatever AddChain returned.
postChainReply_CacheAlways(w, ok) ==
  /\ w \in Workers /\ ~panicked
  /\ wpc[w] = "reply"
  /\ IF ok
       THEN /\ succeeded' = succeeded \cup {wtask[w].certs[1]}
            /\ UNCHANGED addFailed
       ELSE /\ addFailed' = addFailed (+) SetToBag({wtask[w]})
            /\ UNCHANGED succeeded
  /\ wpc' = [wpc EXCEPT ![w] = "cache"]
  /\ UNCHANGED <<fixVars, fetcherVars, enqueued, workerCount, postCertCache, postChainCache, queued, posted,
                 reposted, chainReposted, active, wg, cpc, cchain, calls, wtask,
                 mainPc, errClosed, errorsRecv, panicked, addCalls>>

\* postChain, lines 170-171: AddChain returns, with an error or without.
postChainReply(w, ok) ==
  /\ w \in Workers /\ ~panicked
  /\ wpc[w] = "reply"
  /\ IF ok
       THEN /\ succeeded' = succeeded \cup {wtask[w].certs[1]}
            /\ wpc' = [wpc EXCEPT ![w] = "cache"]
            /\ UNCHANGED addFailed
       ELSE /\ addFailed' = addFailed (+) SetToBag({wtask[w]})
            /\ wpc' = [wpc EXCEPT ![w] = "error"]
            /\ UNCHANGED succeeded
  /\ UNCHANGED <<fixVars, fetcherVars, enqueued, workerCount, postCertCache, postChainCache, queued, posted,
                 reposted, chainReposted, active, wg, cpc, cchain, calls, wtask,
                 mainPc, errClosed, errorsRecv, panicked, addCalls>>

\* postChain without the return of line 177: it goes on to line 181.
postChainError_NoReturn(w) ==
  /\ w \in Workers /\ ~panicked
  /\ wpc[w] = "error"
  /\ IF errClosed
       THEN /\ panicked' = TRUE
            /\ UNCHANGED <<errorsRecv, wpc>>
       ELSE /\ errorsRecv' = errorsRecv (+) SetToBag({FixError(wtask[w])})
            /\ wpc' = [wpc EXCEPT ![w] = "cache"]
            /\ UNCHANGED panicked
  /\ UNCHANGED <<fixVars, fetcherVars, enqueued, workerCount, postCertCache, postChainCache, queued, posted,
                 reposted, chainReposted, active, wg, cpc, cchain, calls, wtask,
                 mainPc, errClosed, addCalls, addFailed, succeeded>>

\* postChain, lines 172-177: l.errors <- &FixError{...}; return. The channel is
\* unbuffered and its consumer ranges over it (chainfix.go:101-106), so the
\* send completes when the error is received; on a closed channel it panics.
postChainError(w) ==
  /\ w \in Workers /\ ~panicked
  /\ wpc[w] = "error"
  /\ IF errClosed
       THEN /\ panicked' = TRUE
            /\ UNCHANGED <<errorsRecv, wpc>>
       ELSE /\ errorsRecv' = errorsRecv (+) SetToBag({FixError(wtask[w])})
            /\ wpc' = [wpc EXCEPT ![w] = "deactivate"]
            /\ UNCHANGED panicked
  /\ UNCHANGED <<fixVars, fetcherVars, enqueued, workerCount, postCertCache, postChainCache, queued, posted,
                 reposted, chainReposted, active, wg, cpc, cchain, calls, wtask,
                 mainPc, errClosed, addCalls, addFailed, succeeded>>

\* postChain, line 181: l.postCertCache.set(h, true).
postChainCacheSet(w) ==
  /\ w \in Workers /\ ~panicked
  /\ wpc[w] = "cache"
  /\ postCertCache' = postCertCache \cup {hash(wtask[w].certs[1])}
  /\ wpc' = [wpc EXCEPT ![w] = "deactivate"]
  /\ UNCHANGED <<fixVars, fetcherVars, enqueued, workerCount, postChainCache, queued, posted, reposted,
                 chainReposted, active, wg, cpc, cchain, calls, wtask, mainPc,
                 errClosed, errorsRecv, panicked, addCalls, addFailed, succeeded>>

\* postServer, line 189: atomic.AddUint32(&l.active, ^uint32(0)).
postServerDeactivate(w) ==
  /\ w \in Workers /\ ~panicked
  /\ wpc[w] = "deactivate"
  /\ active' = active - 1
  /\ wpc' = [wpc EXCEPT ![w] = "done"]
  /\ UNCHANGED <<fixVars, fetcherVars, enqueued, workerCount, postCertCache, postChainCache, queued, posted,
                 reposted, chainReposted, wg, cpc, cchain, calls, wtask, mainPc,
                 errClosed, errorsRecv, panicked, addCalls, addFailed, succeeded>>

\* postServer going back to the receive without l.wg.Done().
postServerDone_NoDone(w) ==
  /\ w \in Workers /\ ~panicked
  /\ wpc[w] = "done"
  /\ wpc' = [wpc EXCEPT ![w] = "recv"]
  /\ wtask' = [wtask EXCEPT ![w] = NoTask]
  /\ UNCHANGED <<fixVars, fetcherVars, enqueued, workerCount, postCertCache, postChainCache, queued, posted,
                 reposted, chainReposted, active, wg, cpc, cchain, calls, mainPc,
                 errClosed, errorsRecv, panicked, addCalls, addFailed, succeeded>>

\* postServer, line 190: l.wg.Done(), then back to the receive.
postServerDone(w) ==
  /\ w \in Workers /\ ~panicked
  /\ wpc[w] = "done"
  /\ wg' = wg - 1
  /\ wpc' = [wpc EXCEPT ![w] = "recv"]
  /\ wtask' = [wtask EXCEPT ![w] = NoTask]
  /\ UNCHANGED <<fixVars, fetcherVars, enqueued, workerCount, postCertCache, postChainCache, queued, posted,
                 reposted, chainReposted, active, cpc, cchain, calls, mainPc,
                 errClosed, errorsRecv, panicked, addCalls, addFailed, succeeded>>

\* main (chainfix.go:129-132): the chains have all been queued (processChains
\* has returned), and the owner calls Wait.
WaitCall ==
  /\ mainPc = "run" /\ ~panicked
  /\ \A c \in Callers : cpc[c] = "idle"
  /\ mainPc' = "waiting"
  /\ UNCHANGED <<fixVars, fetcherVars, enqueued, workerCount, postCertCache, postChainCache, queued, posted,
                 reposted, chainReposted, active, wg, cpc, cchain, calls, wpc,
                 wtask, errClosed, errorsRecv, panicked, addCalls, addFailed,
                 succeeded>>

\* Wait returning without waiting for the counter.
Wait_NoBlock ==
  /\ mainPc = "waiting" /\ ~panicked
  /\ mainPc' = "waited"
  /\ UNCHANGED <<fixVars, fetcherVars, enqueued, workerCount, postCertCache, postChainCache, queued, posted,
                 reposted, chainReposted, active, wg, cpc, cchain, calls, wpc,
                 wtask, errClosed, errorsRecv, panicked, addCalls, addFailed,
                 succeeded>>

\* Wait, lines 100-102: l.wg.Wait() returns once the counter is zero.
Wait ==
  /\ mainPc = "waiting" /\ ~panicked
  /\ wg = 0
  /\ mainPc' = "waited"
  /\ UNCHANGED <<fixVars, fetcherVars, enqueued, workerCount, postCertCache, postChainCache, queued, posted,
                 reposted, chainReposted, active, wg, cpc, cchain, calls, wpc,
                 wtask, errClosed, errorsRecv, panicked, addCalls, addFailed,
                 succeeded>>

\* main (chainfix.go:133): close(errors) after Wait has returned.
CloseErrors ==
  /\ mainPc = "waited" /\ ~panicked
  /\ errClosed' = TRUE
  /\ mainPc' = "closed"
  /\ UNCHANGED <<fixVars, fetcherVars, enqueued, workerCount, postCertCache, postChainCache, queued, posted,
                 reposted, chainReposted, active, wg, cpc, cchain, calls, wpc,
                 wtask, errorsRecv, panicked, addCalls, addFailed, succeeded>>

LoggerNext ==
  \/ \E c \in Callers, chain \in Chains \cup {NilChain} : QueueChain(c, chain)
  \/ \E c \in Callers : QueueChainGet(c)
  \/ \E c \in Callers : QueueChainSet(c)
  \/ \E c \in Callers : postToLog(c)
  \/ \E w \in 1..MaxWorkers, c \in Callers : postServer(w, c)
  \/ \E w \in 1..MaxWorkers : postChain(w)
  \/ \E w \in 1..MaxWorkers : postChainLimiterWait(w)
  \/ \E w \in 1..MaxWorkers : postChainAddChain(w)
  \/ \E w \in 1..MaxWorkers, ok \in BOOLEAN : postChainReply(w, ok)
  \/ \E w \in 1..MaxWorkers : postChainError(w)
  \/ \E w \in 1..MaxWorkers : postChainCacheSet(w)
  \/ \E w \in 1..MaxWorkers : postServerDeactivate(w)
  \/ \E w \in 1..MaxWorkers : postServerDone(w)
  \/ WaitCall
  \/ Wait
  \/ CloseErrors

(***************************************************************************)
(* Fetcher                                                                 *)
(***************************************************************************)
Fetchers == 1..MaxFetch

\* Leaf indices of the log.
Indices == 0..MaxTree

\* A nil *ct.SignedTreeHead.
NilSTH == [isNil |-> TRUE, TreeSize |-> 0]

STH(size) == [isNil |-> FALSE, TreeSize |-> size]

\* fetchRange{start, end}, both inclusive.
fetchRange(start, end) == [start |-> start, end |-> end]

NoRange == fetchRange(0, -1)

min(a, b) == IF a < b THEN a ELSE b

\* The context of the range generator: cancelled by its own cancel function or
\* with its parent, the context passed to Run.
CctxDone == cctxCancelled \/ ctxDone

\* The options a Fetcher is created with.
FetcherOptions ==
  [BatchSize : 1..MaxBatch, ParallelFetch : 1..MaxFetch, StartIndex : 0..1,
   EndIndex : {0, 1}, Continuous : BOOLEAN]

\* No Fetcher: the state of the fetcher variables while the Logger runs.
FetcherIdle ==
  /\ opts = [BatchSize |-> 1, ParallelFetch |-> 1, StartIndex |-> 0,
             EndIndex |-> 0, Continuous |-> FALSE]
  /\ sth = NilSTH /\ cancelSet = FALSE /\ treeSize = 0
  /\ ctxDone = FALSE /\ cctxCancelled = FALSE
  /\ runPc = "off"
  /\ gpc = "off" /\ gstart = 0 /\ gend = 0 /\ gnext = NoRange
  /\ fpc = [w \in Fetchers |-> "off"]
  /\ frange = [w \in Fetchers |-> NoRange]
  /\ startsOk = TRUE /\ delivered = [i \in Indices |-> 0]
  /\ handed = {} /\ stopped = FALSE /\ stoppedInRun = FALSE /\ fetchFailed = FALSE
  /\ emptyBatch = FALSE /\ notesEmpty = FALSE

\* NewFetcher, lines 381-389: no STH, a no-op cancel; Run not yet invoked.
FetcherInit ==
  /\ opts \in FetcherOptions
  /\ sth = NilSTH /\ cancelSet = FALSE
  /\ treeSize \in 0..MaxTree
  /\ ctxDone = FALSE /\ cctxCancelled = FALSE
  /\ runPc = "new"
  /\ gpc = "off" /\ gstart = 0 /\ gend = 0 /\ gnext = NoRange
  /\ fpc = [w \in Fetchers |-> "off"]
  /\ frange = [w \in Fetchers |-> NoRange]
  /\ startsOk = TRUE /\ delivered = [i \in Indices |-> 0]
  /\ handed = {} /\ stopped = FALSE /\ stoppedInRun = FALSE /\ fetchFailed = FALSE
  /\ emptyBatch = FALSE

\* Run is invoked, line 416.
Run ==
  /\ runPc = "new"
  /\ runPc' = "prepare"
  /\ UNCHANGED <<fixVars, loggerVars, notesEmpty, opts, sth, cancelSet, treeSize, ctxDone,
                 cctxCancelled, gpc, gstart, gend, gnext, fpc, frange, startsOk,
                 delivered, handed, stopped, stoppedInRun, fetchFailed, emptyBatch>>

\* Prepare with an error of GetSTH only logged: it goes on with no STH.
Prepare_IgnoreError(ok) ==
  /\ runPc \in {"new", "prepare"}
  /\ IF ~sth.isNil \/ ~ok
       THEN UNCHANGED <<opts, sth>>
       ELSE /\ opts' = IF opts.EndIndex = 0 \/ opts.EndIndex > treeSize
                         THEN [opts EXCEPT !.EndIndex = treeSize]
                         ELSE opts
            /\ sth' = STH(treeSize)
  /\ runPc' = IF runPc = "prepare" THEN "install" ELSE runPc
  /\ UNCHANGED <<fixVars, loggerVars, notesEmpty, cancelSet, treeSize, ctxDone, cctxCancelled, gpc,
                 gstart, gend, gnext, fpc, frange, startsOk, delivered, handed,
                 stopped, stoppedInRun, fetchFailed, emptyBatch>>

\* Prepare that asks the log again although an STH is cached.
Prepare_NoCache(ok) ==
  /\ runPc \in {"new", "prepare"}
  /\ IF ~ok
       THEN /\ runPc' = IF runPc = "prepare" THEN "failed" ELSE runPc
            /\ UNCHANGED <<opts, sth>>
       ELSE /\ opts' = IF opts.EndIndex = 0 \/ opts.EndIndex > treeSize
                         THEN [opts EXCEPT !.EndIndex = treeSize]
                         ELSE opts
            /\ sth' = STH(treeSize)
            /\ runPc' = IF runPc = "prepare" THEN "install" ELSE runPc
  /\ UNCHANGED <<fixVars, loggerVars, notesEmpty, cancelSet, treeSize, ctxDone, cctxCancelled, gpc,
                 gstart, gend, gnext, fpc, frange, startsOk, delivered, handed,
                 stopped, stoppedInRun, fetchFailed, emptyBatch>>

\* Prepare, lines 393-411: called by Run at line 418 (runPc = "prepare"), or by
\* the owner of the Fetcher before Run (runPc = "new"). A cached STH is
\* returned as it is. Otherwise GetSTH fails and the error is returned, which
\* Run returns in its turn (lines 418-420), or the STH is cached and EndIndex
\* fitted to the tree.
Prepare(ok) ==
  /\ runPc \in {"new", "prepare"}
  /\ IF ~sth.isNil
       THEN /\ runPc' = IF runPc = "prepare" THEN "install" ELSE runPc
            /\ UNCHANGED <<opts, sth>>
       ELSE IF ~ok
         THEN /\ runPc' = IF runPc = "prepare" THEN "failed" ELSE runPc
              /\ UNCHANGED <<opts, sth>>
         ELSE /\ opts' = IF opts.EndIndex = 0 \/ opts.EndIndex > treeSize
                           THEN [opts EXCEPT !.EndIndex = treeSize]
                           ELSE opts
              /\ sth' = STH(treeSize)
              /\ runPc' = IF runPc = "prepare" THEN "install" ELSE runPc
  /\ UNCHANGED <<fixVars, loggerVars, notesEmpty, cancelSet, treeSize, ctxDone, cctxCancelled, gpc,
                 gstart, gend, gnext, fpc, frange, startsOk, delivered, handed,
                 stopped, stoppedInRun, fetchFailed, emptyBatch>>

\* Run, lines 422-427: cctx is derived from ctx and f.cancel = cancel.
RunInstallCancel ==
  /\ runPc = "install"
  /\ cancelSet' = TRUE
  /\ runPc' = "start"
  /\ UNCHANGED <<fixVars, loggerVars, notesEmpty, opts, sth, treeSize, ctxDone, cctxCancelled, gpc,
                 gstart, gend, gnext, fpc, frange, startsOk, delivered, handed,
                 stopped, stoppedInRun, fetchFailed, emptyBatch>>

\* Run, lines 432-444, with genRanges lines 464-471: the generator goroutine
\* starts with start, end := StartIndex, EndIndex; the workers start.
RunStart ==
  /\ runPc = "start"
  /\ gpc' = "loop"
  /\ gstart' = opts.StartIndex
  /\ gend' = opts.EndIndex
  /\ fpc' = [w \in Fetchers |-> IF w <= opts.ParallelFetch THEN "recv" ELSE "off"]
  /\ runPc' = "wait"
  /\ UNCHANGED <<fixVars, loggerVars, notesEmpty, opts, sth, cancelSet, treeSize, ctxDone,
                 cctxCancelled, gnext, frange, startsOk, delivered, handed,
                 stopped, stoppedInRun, fetchFailed, emptyBatch>>

\* Run returning the error of its context when that was cancelled.
RunReturn_CtxErr ==
  /\ runPc = "wait"
  /\ \A w \in Fetchers : fpc[w] \in {"off", "exit"}
  /\ runPc' = IF ctxDone THEN "failed" ELSE "done"
  /\ cctxCancelled' = TRUE
  /\ UNCHANGED <<fixVars, loggerVars, notesEmpty, opts, sth, cancelSet, treeSize, ctxDone, gpc,
                 gstart, gend, gnext, fpc, frange, startsOk, delivered, handed,
                 stopped, stoppedInRun, fetchFailed, emptyBatch>>

\* Run, lines 445-448: wg.Wait() returns when every worker has returned; Run
\* returns nil and its deferred cancel() runs.
RunReturn ==
  /\ runPc = "wait"
  /\ \A w \in Fetchers : fpc[w] \in {"off", "exit"}
  /\ runPc' = "done"
  /\ cctxCancelled' = TRUE
  /\ UNCHANGED <<fixVars, loggerVars, notesEmpty, opts, sth, cancelSet, treeSize, ctxDone, gpc,
                 gstart, gend, gnext, fpc, frange, startsOk, delivered, handed,
                 stopped, stoppedInRun, fetchFailed, emptyBatch>>

\* Stop, lines 454-458: calls f.cancel under the mutex.
Stop ==
  /\ runPc \notin {"off", "done", "failed"}
  /\ cctxCancelled' = (cctxCancelled \/ cancelSet)
  /\ stopped' = (stopped \/ cancelSet)
  /\ stoppedInRun' = (stoppedInRun \/ runPc # "new")
  /\ UNCHANGED <<fixVars, loggerVars, notesEmpty, opts, sth, cancelSet, treeSize, ctxDone, runPc,
                 gpc, gstart, gend, gnext, fpc, frange, startsOk, delivered,
                 handed, fetchFailed, emptyBatch>>

\* The caller of Run cancels the context it passed.
CancelContext ==
  /\ runPc \notin {"off", "new", "done", "failed"}
  /\ ~ctxDone
  /\ ctxDone' = TRUE
  /\ UNCHANGED <<fixVars, loggerVars, notesEmpty, opts, sth, cancelSet, treeSize, cctxCancelled,
                 runPc, gpc, gstart, gend, gnext, fpc, frange, startsOk,
                 delivered, handed, stopped, stoppedInRun, fetchFailed, emptyBatch>>

\* batchEnd without the cut at end: always a full batch.
batchEnd_Full(start, end, batch) == start + batch

\* genRanges, line 484: batchEnd := start + min(end-start, batch).
batchEnd(start, end, batch) == start + min(end - start, batch)

\* The next range with its end one too far.
nextRange_EndInclusive(start, end, batch) ==
  fetchRange(start, batchEnd(start, end, batch))

\* genRanges, line 485: next := fetchRange{start, batchEnd - 1}.
nextRange(start, end, batch) == fetchRange(start, batchEnd(start, end, batch) - 1)

\* genRanges with the loop test start < end only: Continuous is ignored.
genRanges_NoContinuous ==
  /\ gpc = "loop"
  /\ IF gstart < gend
       THEN /\ gnext' = nextRange(gstart, gend, opts.BatchSize)
            /\ gpc' = "select"
       ELSE /\ gpc' = "closed"
            /\ UNCHANGED gnext
  /\ UNCHANGED <<fixVars, loggerVars, notesEmpty, opts, sth, cancelSet, treeSize, ctxDone,
                 cctxCancelled, runPc, gstart, gend, fpc, frange, startsOk,
                 delivered, handed, stopped, stoppedInRun, fetchFailed, emptyBatch>>

\* genRanges, lines 473-485: the loop test; with start < end the next range is
\* computed, with start = end (continuous mode) updateSTH is called, otherwise
\* the loop ends and the deferred close(ranges) runs.
genRanges ==
  /\ gpc = "loop"
  /\ IF gstart < gend \/ opts.Continuous
       THEN IF gstart = gend
              THEN /\ gpc' = "update"
                   /\ UNCHANGED gnext
              ELSE /\ gnext' = nextRange(gstart, gend, opts.BatchSize)
                   /\ gpc' = "select"
       ELSE /\ gpc' = "closed"
            /\ UNCHANGED gnext
  /\ UNCHANGED <<fixVars, loggerVars, notesEmpty, opts, sth, cancelSet, treeSize, ctxDone,
                 cctxCancelled, runPc, gstart, gend, fpc, frange, startsOk,
                 delivered, handed, stopped, stoppedInRun, fetchFailed, emptyBatch>>

\* updateSTH taking a tree head that is no bigger than the last one.
updateSTH_AnyTree(ok, size, quick) ==
  /\ gpc = "update"
  /\ size >= treeSize
  /\ IF CctxDone
       THEN /\ gpc' = "closed"
            /\ UNCHANGED <<opts, sth, treeSize, gend, gnext>>
       ELSE /\ treeSize' = size
            /\ IF \/ ~ok
                  \/ size < opts.EndIndex
                  \/ quick /\ size < opts.EndIndex + opts.BatchSize
                 THEN UNCHANGED <<opts, sth, gend, gnext, gpc>>
                 ELSE /\ sth' = STH(size)
                      /\ opts' = [opts EXCEPT !.EndIndex = size]
                      /\ gend' = size
                      /\ gnext' = nextRange(gstart, size, opts.BatchSize)
                      /\ gpc' = "select"
  /\ UNCHANGED <<fixVars, loggerVars, notesEmpty, cancelSet, ctxDone, cctxCancelled, runPc, gstart,
                 fpc, frange, startsOk, delivered, handed, stopped, stoppedInRun,
                 fetchFailed, emptyBatch>>

\* updateSTH, lines 505-540, called at line 477: one attempt of the retried
\* function. The log has grown to size; quick tells whether the quick deadline
\* is still ahead. A cancelled context ends the retries with an error, and
\* genRanges returns (lines 478-479), closing the channel.
updateSTH(ok, size, quick) ==
  /\ gpc = "update"
  /\ size >= treeSize
  /\ IF CctxDone
       THEN /\ gpc' = "closed"
            /\ UNCHANGED <<opts, sth, treeSize, gend, gnext>>
       ELSE /\ treeSize' = size
            /\ IF \/ ~ok
                  \/ size <= opts.EndIndex
                  \/ quick /\ size < opts.EndIndex + opts.BatchSize
                 THEN UNCHANGED <<opts, sth, gend, gnext, gpc>>
                 ELSE /\ sth' = STH(size)
                      /\ opts' = [opts EXCEPT !.EndIndex = size]
                      /\ gend' = size
                      /\ gnext' = nextRange(gstart, size, opts.BatchSize)
                      /\ gpc' = "select"
  /\ UNCHANGED <<fixVars, loggerVars, notesEmpty, cancelSet, ctxDone, cctxCancelled, runPc, gstart,
                 fpc, frange, startsOk, delivered, handed, stopped, stoppedInRun,
                 fetchFailed, emptyBatch>>

\* genRanges, lines 486-492: the select takes the case ranges <- next, which
\* can proceed when worker w is receiving (runWorker line 547). Go picks among
\* the cases that can proceed at random, so a cancelled context does not
\* prevent this send.
genRangesSend(w) ==
  /\ gpc = "select"
  /\ fpc[w] = "recv"
  /\ frange' = [frange EXCEPT ![w] = gnext]
  /\ fpc' = [fpc EXCEPT ![w] = IF gnext.start <= gnext.end THEN "fetch" ELSE "recv"]
  /\ handed' = handed \cup {gnext}
  /\ gstart' = batchEnd(gstart, gend, opts.BatchSize)
  /\ gnext' = NoRange
  /\ gpc' = "loop"
  /\ UNCHANGED <<fixVars, loggerVars, notesEmpty, opts, sth, cancelSet, treeSize, ctxDone,
                 cctxCancelled, runPc, gend, startsOk, delivered, stopped,
                 stoppedInRun, fetchFailed, emptyBatch>>

\* genRanges, lines 487-489: the select takes the case <-ctx.Done(); the
\* goroutine returns and close(ranges) runs.
genRangesCancelled ==
  /\ gpc = "select"
  /\ CctxDone
  /\ gpc' = "closed"
  /\ UNCHANGED <<fixVars, loggerVars, notesEmpty, opts, sth, cancelSet, treeSize, ctxDone,
                 cctxCancelled, runPc, gstart, gend, gnext, fpc, frange,
                 startsOk, delivered, handed, stopped, stoppedInRun, fetchFailed, emptyBatch>>

\* The response of the log to GetRawEntries(start, end) when it returns n
\* entries: the leaves of index start, start+1, ..., each named by its index.
GetRawEntries(start, n) == [j \in 1..n |-> start + j - 1]

\* EntryBatch{Start: start, Entries: entries}
EntryBatch(start, entries) == [Start |-> start, Entries |-> entries]

\* The callback fn of the caller of Run records the batch it is given: each
\* entry is counted, and the batch's Start is compared with its first entry;
\* a caller may hand in a callback that notes the batches of no entries too.
fn(batch) ==
  /\ delivered' = [i \in Indices |->
       delivered[i] + Cardinality({j \in DOMAIN batch.Entries : batch.Entries[j] = i})]
  /\ startsOk' = (startsOk /\ \A j \in DOMAIN batch.Entries :
                                 batch.Entries[j] = batch.Start + j - 1)
  /\ emptyBatch' = (emptyBatch \/ (notesEmpty /\ batch.Entries = <<>>))

\* runWorker given the context of the range generator instead of Run's.
runWorker_Cctx(w, ok, n) ==
  /\ fpc[w] = "fetch"
  /\ n \in 0..(frange[w].end - frange[w].start + 1)
  /\ IF CctxDone
       THEN /\ fpc' = [fpc EXCEPT ![w] = "exit"]
            /\ UNCHANGED <<frange, startsOk, delivered, fetchFailed, emptyBatch>>
       ELSE IF ~ok
         THEN /\ fetchFailed' = TRUE
              /\ UNCHANGED <<fpc, frange, startsOk, delivered, emptyBatch>>
         ELSE /\ fn(EntryBatch(frange[w].start, GetRawEntries(frange[w].start, n)))
              /\ IF frange[w].start + n <= frange[w].end
                   THEN /\ frange' = [frange EXCEPT ![w].start = @ + n]
                        /\ UNCHANGED fpc
                   ELSE /\ frange' = [frange EXCEPT ![w] = NoRange]
                        /\ fpc' = [fpc EXCEPT ![w] = "recv"]
              /\ UNCHANGED fetchFailed
  /\ UNCHANGED <<fixVars, loggerVars, notesEmpty, opts, sth, cancelSet, treeSize, ctxDone,
                 cctxCancelled, runPc, gpc, gstart, gend, gnext, handed,
                 stopped, stoppedInRun>>

\* runWorker giving up the rest of its range when GetRawEntries fails.
runWorker_AbandonOnError(w, ok, n) ==
  /\ fpc[w] = "fetch"
  /\ n \in 0..(frange[w].end - frange[w].start + 1)
  /\ IF ctxDone
       THEN /\ fpc' = [fpc EXCEPT ![w] = "exit"]
            /\ UNCHANGED <<frange, startsOk, delivered, fetchFailed, emptyBatch>>
       ELSE IF ~ok
         THEN /\ fetchFailed' = TRUE
              /\ frange' = [frange EXCEPT ![w] = NoRange]
              /\ fpc' = [fpc EXCEPT ![w] = "recv"]
              /\ UNCHANGED <<startsOk, delivered, emptyBatch>>
         ELSE /\ fn(EntryBatch(frange[w].start, GetRawEntries(frange[w].start, n)))
              /\ IF frange[w].start + n <= frange[w].end
                   THEN /\ frange' = [frange EXCEPT ![w].start = @ + n]
                        /\ UNCHANGED fpc
                   ELSE /\ frange' = [frange EXCEPT ![w] = NoRange]
                        /\ fpc' = [fpc EXCEPT ![w] = "recv"]
              /\ UNCHANGED fetchFailed
  /\ UNCHANGED <<fixVars, loggerVars, notesEmpty, opts, sth, cancelSet, treeSize, ctxDone,
                 cctxCancelled, runPc, gpc, gstart, gend, gnext, handed,
                 stopped, stoppedInRun>>

\* runWorker without the ctx.Err() test at the top of its inner loop.
runWorker_NoCtxErr(w, ok, n) ==
  /\ fpc[w] = "fetch"
  /\ n \in 0..(frange[w].end - frange[w].start + 1)
  /\ IF ~ok
       THEN /\ fetchFailed' = TRUE
            /\ UNCHANGED <<fpc, frange, startsOk, delivered, emptyBatch>>
       ELSE /\ fn(EntryBatch(frange[w].start, GetRawEntries(frange[w].start, n)))
            /\ IF frange[w].start + n <= frange[w].end
                 THEN /\ frange' = [frange EXCEPT ![w].start = @ + n]
                      /\ UNCHANGED fpc
                 ELSE /\ frange' = [frange EXCEPT ![w] = NoRange]
                      /\ fpc' = [fpc EXCEPT ![w] = "recv"]
            /\ UNCHANGED fetchFailed
  /\ UNCHANGED <<fixVars, loggerVars, notesEmpty, opts, sth, cancelSet, treeSize, ctxDone,
                 cctxCancelled, runPc, gpc, gstart, gend, gnext, handed,
                 stopped, stoppedInRun>>

\* runWorker taking a response of no entries for the end of its range.
runWorker_DoneOnEmpty(w, ok, n) ==
  /\ fpc[w] = "fetch"
  /\ n \in 0..(frange[w].end - frange[w].start + 1)
  /\ IF ctxDone
       THEN /\ fpc' = [fpc EXCEPT ![w] = "exit"]
            /\ UNCHANGED <<frange, startsOk, delivered, fetchFailed, emptyBatch>>
       ELSE IF ~ok
         THEN /\ fetchFailed' = TRUE
              /\ UNCHANGED <<fpc, frange, startsOk, delivered, emptyBatch>>
         ELSE /\ fn(EntryBatch(frange[w].start, GetRawEntries(frange[w].start, n)))
              /\ IF n > 0 /\ frange[w].start + n <= frange[w].end
                   THEN /\ frange' = [frange EXCEPT ![w].start = @ + n]
                        /\ UNCHANGED fpc
                   ELSE /\ frange' = [frange EXCEPT ![w] = NoRange]
                        /\ fpc' = [fpc EXCEPT ![w] = "recv"]
              /\ UNCHANGED fetchFailed
  /\ UNCHANGED <<fixVars, loggerVars, notesEmpty, opts, sth, cancelSet, treeSize, ctxDone,
                 cctxCancelled, runPc, gpc, gstart, gend, gnext, handed,
                 stopped, stoppedInRun>>

\* runWorker, lines 550-582: one pass of the inner loop. With ctx cancelled the
\* worker returns. Otherwise GetRawEntries(r.start, r.end) fails and is tried
\* again, or returns n entries: fn gets the batch and r.start moves on by n.
runWorker(w, ok, n) ==
  /\ fpc[w] = "fetch"
  /\ n \in 0..(frange[w].end - frange[w].start + 1)
  /\ IF ctxDone
       THEN /\ fpc' = [fpc EXCEPT ![w] = "exit"]
            /\ UNCHANGED <<frange, startsOk, delivered, fetchFailed, emptyBatch>>
       ELSE IF ~ok
         THEN /\ fetchFailed' = TRUE
              /\ UNCHANGED <<fpc, frange, startsOk, delivered, emptyBatch>>
         ELSE /\ fn(EntryBatch(frange[w].start, GetRawEntries(frange[w].start, n)))
              /\ IF frange[w].start + n <= frange[w].end
                   THEN /\ frange' = [frange EXCEPT ![w].start = @ + n]
                        /\ UNCHANGED fpc
                   ELSE /\ frange' = [frange EXCEPT ![w] = NoRange]
                        /\ fpc' = [fpc EXCEPT ![w] = "recv"]
              /\ UNCHANGED fetchFailed
  /\ UNCHANGED <<fixVars, loggerVars, notesEmpty, opts, sth, cancelSet, treeSize, ctxDone,
                 cctxCancelled, runPc, gpc, gstart, gend, gnext, handed,
                 stopped, stoppedInRun>>

\* runWorker, line 547: the range channel is closed and the worker returns.
runWorkerClosed(w) ==
  /\ fpc[w] = "recv"
  /\ gpc = "closed"
  /\ fpc' = [fpc EXCEPT ![w] = "exit"]
  /\ UNCHANGED <<fixVars, loggerVars, notesEmpty, opts, sth, cancelSet, treeSize, ctxDone,
                 cctxCancelled, runPc, gpc, gstart, gend, gnext, frange,
                 startsOk, delivered, handed, stopped, stoppedInRun, fetchFailed, emptyBatch>>

FetcherNext ==
  \/ Run
  \/ \E ok \in BOOLEAN : Prepare(ok)
  \/ RunInstallCancel
  \/ RunStart
  \/ RunReturn
  \/ Stop
  \/ CancelContext
  \/ genRanges
  \/ \E ok \in BOOLEAN, size \in 0..MaxTree, quick \in BOOLEAN : updateSTH(ok, size, quick)
  \/ \E w \in Fetchers : genRangesSend(w)
  \/ genRangesCancelled
  \/ \E w \in Fetchers, ok \in BOOLEAN, n \in 0..MaxBatch : runWorker(w, ok, n)
  \/ \E w \in Fetchers : runWorkerClosed(w)

(***************************************************************************)
(* Logger.RootCerts (src/fixchain/logger.go:104-135)                       *)
(***************************************************************************)
\* the attempts of RootCerts: for i := 0; i < 10; i++
rootRetries == 10
\* largest number of RootCerts calls
MaxRootCalls == 2

\* The second root of TestRootCerts.
comodoRoot == [Raw |-> <<5>>]

\* A nil *x509.CertPool.
NilPool == [isNil |-> TRUE, certs |-> {}]

\* x509.NewCertPool() with certs added.
CertPool(certs) == [isNil |-> FALSE, certs |-> certs]

\* One root of a get-roots response: its certificate and whether
\* x509.ParseCertificate fails fatally on its Data.
Root(cert, isFatal) == [cert |-> cert, isFatal |-> isFatal]

\* What l.client.GetAcceptedRoots returns: an error, or a list of roots.
Response(err, rs) == [err |-> err, roots |-> rs]

\* Responses that make getRoots fail: a transport error, a root that does not parse.
FailedResponses == { Response(TRUE, <<>>),
                     Response(FALSE, <<Root(verisignRoot, FALSE), Root(comodoRoot, TRUE)>>) }

\* Responses getRoots turns into a pool.
GoodResponses == { Response(FALSE, <<Root(verisignRoot, FALSE), Root(comodoRoot, FALSE)>>),
                   Response(FALSE, <<Root(verisignRoot, FALSE)>>),
                   Response(FALSE, <<>>) }

\* getRoots on the response resp: the pool and the error it returns.
getRoots(resp) ==
  IF resp.err
    THEN [pool |-> NilPool, err |-> TRUE]
    ELSE IF \E i \in 1..Len(resp.roots) : resp.roots[i].isFatal
           THEN [pool |-> NilPool, err |-> TRUE]
           ELSE [pool |-> CertPool({resp.roots[i].cert : i \in 1..Len(resp.roots)}),
                 err |-> FALSE]

RECURSIVE retryRoots(_, _)
\* The loop of RootCerts from attempt i on, the log answering resps[i + 1],
\* resps[i + 2], ...: the pool stored, the requests made, and whether
\* log.Fatalf was reached.
retryRoots(resps, i) ==
  IF i >= rootRetries
    THEN [roots |-> NilPool, asked |-> i, fatal |-> TRUE]
    ELSE LET r == getRoots(resps[i + 1]) IN
         IF ~r.err
           THEN [roots |-> r.pool, asked |-> i + 1, fatal |-> FALSE]
           ELSE retryRoots(resps, i + 1)

RootCerts_NotStored(resps) ==
  /\ ~fatal
  /\ rootCalls < MaxRootCalls
  /\ rootCalls' = rootCalls + 1
  /\ IF roots.isNil
       THEN LET r == retryRoots(resps, 0) IN
            /\ roots' = roots
            /\ responses' = responses \o SubSeq(resps, 1, r.asked)
            /\ fatal' = r.fatal
            /\ returned' = IF r.fatal THEN returned ELSE Append(returned, r.roots)
       ELSE /\ returned' = Append(returned, roots)
            /\ UNCHANGED <<roots, responses, fatal>>
  /\ UNCHANGED <<loggerVars, fetcherVars, hammerVars, fixerVars, funcVars>>

\* l.RootCerts(), the log answering the requests it makes with resps.
RootCerts(resps) ==
  /\ ~fatal
  /\ rootCalls < MaxRootCalls
  /\ rootCalls' = rootCalls + 1
  /\ IF roots.isNil
       THEN LET r == retryRoots(resps, 0) IN
            /\ roots' = r.roots
            /\ responses' = responses \o SubSeq(resps, 1, r.asked)
            /\ fatal' = r.fatal
            /\ returned' = IF r.fatal THEN returned ELSE Append(returned, r.roots)
       ELSE /\ returned' = Append(returned, roots)
            /\ UNCHANGED <<roots, responses, fatal>>
  /\ UNCHANGED <<loggerVars, fetcherVars, hammerVars, fixerVars, funcVars>>

\* The answers of the log to the requests of one RootCerts call: failed
\* requests followed by requests that succeed.
RootResponses ==
  { [i \in 1..(rootRetries + 1) |-> IF i <= k THEN bad ELSE good] :
      k \in 0..rootRetries, bad \in FailedResponses, good \in GoodResponses }

\* A Logger whose RootCerts has not been called.
RootIdle ==
  /\ roots = NilPool
  /\ responses = <<>>
  /\ rootCalls = 0
  /\ returned = <<>>
  /\ fatal = FALSE

\* A Fixer that has completed no task and received none.
FixerIdle ==
  /\ reconstructed = 0 /\ notReconstructed = 0 /\ fixed = 0 /\ notFixed = 0
  /\ completed = 0
  /\ ferrs = <<>>
  /\ hinted = NoTask
  /\ toFix = NoTask

\* No call of a pure function.
NoCall == [fn |-> "none"]

FuncIdle ==
  /\ input = NoCall
  /\ output = NoCall

\* How many STHs the hammer holds on to.
sthCount == 10

\* The zero value of hammerState.sth: every entry nil.
NoSTHs == [i \in 0..(sthCount - 1) |-> NilSTH]

\* No hammer run.
HammerIdle ==
  /\ hOperations = 0
  /\ hIgnoreErrors = FALSE
  /\ hcount = 1
  /\ hpc = "off"
  /\ hep = "none"
  /\ hsth = NoSTHs
  /\ hlast = NilSTH
  /\ hcalls = 0 /\ hreqs = 0 /\ herrs = 0
  /\ hctxDone = FALSE

FixIdle == RootIdle /\ FixerIdle /\ FuncIdle /\ HammerIdle

(***************************************************************************)
(* The pure functions of package fixchain                                  *)
(* (src/fixchain/functions_test.go:262-329)                                *)
(***************************************************************************)
\* longest chain handed to hashChain and hashBag
MaxChain == 3
\* largest number of chains handed to removeSuperChains
MaxChains == 3

\* Two certificates whose DER agrees on the first hashSize bytes (lengths,
\* version, serial number) and differs after them.
longLeaf == [Raw |-> [i \in 1..hashSize |-> 6] \o <<1>>]
longLeafTwin == [Raw |-> [i \in 1..hashSize |-> 6] \o <<2>>]

\* The certificates the functions are applied to.
Certs == {googleLeaf, thawteIntermediate, verisignRoot, longLeaf, longLeafTwin}

\* The sequences over S of length at most n.
SeqsUpTo(S, n) == UNION {[1..k -> S] : k \in 0..n}

\* The elements of the sequence s.
Range(s) == {s[i] : i \in 1..Len(s)}

\* The rearrangements of the chain ch.
Rearrangements(ch) ==
  { [i \in 1..Len(ch) |-> ch[p[i]]] :
      p \in {q \in [1..Len(ch) -> 1..Len(ch)] : Range(q) = 1..Len(ch)} }

\* bag.Less on the Raw of two certificates: shorter first, then bytewise.
Less(ci, cj) ==
  IF Len(ci) # Len(cj)
    THEN Len(ci) < Len(cj)
    ELSE \E n \in 1..Len(ci) : /\ ci[n] < cj[n]
                               /\ \A m \in 1..(n - 1) : ci[m] = cj[m]

RECURSIVE insertCert(_, _)
\* c put into the sorted sequence s before the first element it is Less than.
insertCert(c, s) ==
  IF s = <<>> THEN <<c>>
  ELSE IF Less(c.Raw, Head(s).Raw) THEN <<c>> \o s
  ELSE <<Head(s)>> \o insertCert(c, Tail(s))

RECURSIVE sortBag(_)
\* sort.Sort(b): the certificates of b ordered by Less.
sortBag(certs) ==
  IF certs = <<>> THEN <<>> ELSE insertCert(Head(certs), sortBag(Tail(certs)))

hashBag_NoSort(chain) ==
  LET b == chain
  IN  [hash |-> hashChain(b), chain |-> chain]

\* hashBag(chain): the hashChain of a sorted copy b of chain; chain is what
\* the caller's slice holds after the call.
hashBag(chain) ==
  LET b == sortBag(chain)
  IN  [hash |-> hashChain(b), chain |-> chain]

\* hash applied to two certificates.
hashCall ==
  /\ input.args = "certs"
  /\ output' = [fn |-> "hash", a |-> hash(input.a), b |-> hash(input.b)]
  /\ UNCHANGED <<loggerVars, fetcherVars, hammerVars, rootVars, fixerVars, input>>

\* hashChain applied to a chain and to a rearrangement of it.
hashChainCall ==
  /\ input.args = "chains"
  /\ output' = [fn |-> "hashChain", hash |-> hashChain(input.chain),
                hashPerm |-> hashChain(input.perm)]
  /\ UNCHANGED <<loggerVars, fetcherVars, hammerVars, rootVars, fixerVars, input>>

\* hashBag applied to a chain and to a rearrangement of it.
hashBagCall ==
  /\ input.args = "chains"
  /\ output' = [fn |-> "hashBag", hash |-> hashBag(input.chain).hash,
                hashPerm |-> hashBag(input.perm).hash,
                chain |-> hashBag(input.chain).chain,
                perm |-> hashBag(input.perm).chain]
  /\ UNCHANGED <<loggerVars, fetcherVars, hammerVars, rootVars, fixerVars, input>>

(***************************************************************************)
(* removeSuperChains (tested in src/unnamed/part_002:391-471)              *)
(***************************************************************************)
\* The chains of TestRemoveSuperChains.
SuperChainPool == { <<googleLeaf>>,
                    <<googleLeaf, thawteIntermediate>>,
                    <<googleLeaf, verisignRoot>>,
                    <<googleLeaf, thawteIntermediate, verisignRoot>>,
                    <<testLeaf, googleLeaf, thawteIntermediate, verisignRoot>> }

\* The lists of distinct chains handed to removeSuperChains.
ChainLists ==
  { cs \in SeqsUpTo(SuperChainPool, MaxChains) :
      \A i, j \in 1..Len(cs) : i # j => cs[i] # cs[j] }

isSuperChain_NotStrict(a, b) ==
  /\ Len(b) <= Len(a)
  /\ SubSeq(a, 1, Len(b)) = b

\* a is a super-chain of b: b is a strict prefix of a.
isSuperChain(a, b) ==
  /\ Len(b) < Len(a)
  /\ SubSeq(a, 1, Len(b)) = b

withoutSuperChainsOf_SameLeaf(b, kept) ==
  LET keep(c) == c = b \/ Len(c) < Len(b) \/ Head(c) # Head(b) IN SelectSeq(kept, keep)

\* The chains of kept that are no super-chain of the chain b.
withoutSuperChainsOf(b, kept) ==
  LET keep(c) == ~isSuperChain(c, b) IN SelectSeq(kept, keep)

RECURSIVE dropSuperChains_Next(_, _, _)
dropSuperChains_Next(chains, i, kept) ==
  IF i >= Len(chains) THEN kept
  ELSE dropSuperChains_Next(chains, i + 1,
         IF isSuperChain(chains[i + 1], chains[i])
           THEN LET keep(c) == c # chains[i + 1] IN SelectSeq(kept, keep)
           ELSE kept)

RECURSIVE dropSuperChains(_, _, _)
\* Each chain from chains[i] on in turn wins over its super-chains in kept.
dropSuperChains(chains, i, kept) ==
  IF i > Len(chains) THEN kept
  ELSE dropSuperChains(chains, i + 1, withoutSuperChainsOf(chains[i], kept))

\* removeSuperChains(chains): when a chain and a super-chain of it are both
\* present, the super-chain is dropped.
removeSuperChains(chains) == dropSuperChains(chains, 1, chains)

\* A row of superChainsTests: the chains handed in and the chains expected.
superChainsTest(chains, expectedChains) ==
  [chains |-> chains, expectedChains |-> expectedChains]

\* The first five rows of the table of TestRemoveSuperChains.
superChainsTests ==
  { superChainsTest(<< <<googleLeaf, thawteIntermediate>>, <<googleLeaf>> >>,
                    { <<googleLeaf>> }),
    superChainsTest(<< <<googleLeaf, verisignRoot>>,
                       <<googleLeaf, thawteIntermediate>>, <<googleLeaf>> >>,
                    { <<googleLeaf>> }),
    superChainsTest(<< <<googleLeaf, thawteIntermediate, verisignRoot>>,
                       <<googleLeaf, thawteIntermediate>>, <<googleLeaf>> >>,
                    { <<googleLeaf>> }),
    superChainsTest(<< <<googleLeaf, thawteIntermediate, verisignRoot>>,
                       <<googleLeaf>> >>,
                    { <<googleLeaf>> }),
    superChainsTest(<< <<googleLeaf, thawteIntermediate, verisignRoot>>,
                       <<googleLeaf, verisignRoot>>,
                       <<googleLeaf, thawteIntermediate>> >>,
                    { <<googleLeaf, thawteIntermediate>>,
                      <<googleLeaf, verisignRoot>> }) }

\* removeSuperChains applied to a list of chains, and to its own result.
removeSuperChainsCall ==
  /\ input.args = "chainList"
  /\ output' = [fn |-> "removeSuperChains",
                kept |-> removeSuperChains(input.chains),
                again |-> removeSuperChains(removeSuperChains(input.chains))]
  /\ UNCHANGED <<loggerVars, fetcherVars, hammerVars, rootVars, fixerVars, input>>

\* The arguments the functions are applied to.
FuncInputs ==
  { [args |-> "certs", a |-> a, b |-> b] : a \in Certs, b \in Certs }
  \cup UNION { { [args |-> "chains", chain |-> ch, perm |-> p] :
                   p \in Rearrangements(ch) } : ch \in SeqsUpTo(Certs, MaxChain) }
  \cup { [args |-> "chainList", chains |-> cs] : cs \in ChainLists }

\* Any arguments, and no call made yet.
FuncInit ==
  /\ input \in FuncInputs
  /\ output = NoCall

(***************************************************************************)
(* Fixer.updateCounters and Fixer.QueueChain                               *)
(* (tested in src/unnamed/part_002:473-566)                                *)
(***************************************************************************)
\* largest number of tasks the Fixer completes
MaxTasks == 2

ParseFailure == "ParseFailure"
VerifyFailed == "VerifyFailed"
FixFailed == "FixFailed"

\* The errorTypes of TestUpdateCounters.
ErrorTypes == {ParseFailure, VerifyFailed, FixFailed}

\* The lists of FixErrors a task ends with: &FixError{Type: err} for each err.
ErrorLists ==
  { [i \in DOMAIN ts |-> [Type |-> ts[i]]] :
      ts \in SeqsUpTo(ErrorTypes, Cardinality(ErrorTypes)) }

\* Some error of errs has the type t.
hasType(errs, t) == \E i \in 1..Len(errs) : errs[i].Type = t

updateCounters_FixWithoutVerify(errs) ==
  /\ completed < MaxTasks
  /\ completed' = completed + 1
  /\ ferrs' = errs
  /\ IF hasType(errs, VerifyFailed)
       THEN /\ notReconstructed' = notReconstructed + 1
            /\ UNCHANGED reconstructed
       ELSE /\ reconstructed' = reconstructed + 1
            /\ UNCHANGED notReconstructed
  /\ IF hasType(errs, FixFailed)
       THEN /\ notFixed' = notFixed + 1
            /\ UNCHANGED fixed
       ELSE IF hasType(errs, VerifyFailed)
              THEN /\ fixed' = fixed + 1
                   /\ UNCHANGED notFixed
              ELSE UNCHANGED <<fixed, notFixed>>
  /\ UNCHANGED <<loggerVars, fetcherVars, hammerVars, rootVars, funcVars, hinted, toFix>>

\* 1 when b holds, 0 otherwise.
Count(b) == IF b THEN 1 ELSE 0

\* A row of counterTests: the errors of a task and the counters of a new
\* Fixer after it.
counterTest(errors, r, nr, f, nf) ==
  [errors |-> errors, reconstructed |-> r, notReconstructed |-> nr,
   fixed |-> f, notFixed |-> nf]

\* The table of TestUpdateCounters.
counterTests ==
  { counterTest(<<>>, 1, 0, 0, 0),
    counterTest(<<VerifyFailed>>, 0, 1, 1, 0),
    counterTest(<<VerifyFailed, FixFailed>>, 0, 1, 0, 1),
    counterTest(<<ParseFailure>>, 1, 0, 0, 0),
    counterTest(<<ParseFailure, VerifyFailed>>, 0, 1, 1, 0),
    counterTest(<<ParseFailure, VerifyFailed, FixFailed>>, 0, 1, 0, 1) }

updateCounters_FixedReconstructs(errs) ==
  /\ completed < MaxTasks
  /\ completed' = completed + 1
  /\ ferrs' = errs
  /\ IF hasType(errs, VerifyFailed) /\ hasType(errs, FixFailed)
       THEN /\ notReconstructed' = notReconstructed + 1
            /\ notFixed' = notFixed + 1
            /\ UNCHANGED <<reconstructed, fixed>>
       ELSE /\ reconstructed' = reconstructed + 1
            /\ fixed' = fixed + Count(hasType(errs, VerifyFailed))
            /\ UNCHANGED <<notReconstructed, notFixed>>
  /\ UNCHANGED <<loggerVars, fetcherVars, hammerVars, rootVars, funcVars, hinted, toFix>>

\* f.updateCounters(chains, errs) at the end of a task: no VerifyFailed
\* counts as reconstructed; VerifyFailed as notReconstructed and, with
\* FixFailed, notFixed, without it, fixed.
updateCounters(errs) ==
  /\ completed < MaxTasks
  /\ completed' = completed + 1
  /\ ferrs' = errs
  /\ IF hasType(errs, VerifyFailed)
       THEN /\ notReconstructed' = notReconstructed + 1
            /\ UNCHANGED reconstructed
            /\ IF hasType(errs, FixFailed)
                 THEN /\ notFixed' = notFixed + 1
                      /\ UNCHANGED fixed
                 ELSE /\ fixed' = fixed + 1
                      /\ UNCHANGED notFixed
       ELSE /\ reconstructed' = reconstructed + 1
            /\ UNCHANGED <<notReconstructed, fixed, notFixed>>
  /\ UNCHANGED <<loggerVars, fetcherVars, hammerVars, rootVars, funcVars, hinted, toFix>>

\* The chains handed to Fixer.QueueChain with the leaf googleLeaf: none, or
\* certificates in any order, repeated or not, the leaf among them or not.
HintedChains ==
  {NilChain} \cup
  { Slice(ch) : ch \in SeqsUpTo({googleLeaf, thawteIntermediate, verisignRoot}, MaxChain) }

RECURSIVE addCerts_KeepLeaf(_, _, _)
addCerts_KeepLeaf(leaf, certs, d) ==
  IF certs = <<>> THEN d
  ELSE addCerts_KeepLeaf(leaf, Tail(certs),
         IF Head(certs) \in Range(d) THEN d ELSE Append(d, Head(certs)))

RECURSIVE addCerts(_, _, _)
\* The deduped chain d after each certificate of certs in turn was added to
\* it: one equal to the leaf or already in d is not added.
addCerts(leaf, certs, d) ==
  IF certs = <<>> THEN d
  ELSE addCerts(leaf, Tail(certs),
         IF Head(certs) = leaf \/ Head(certs) \in Range(d)
           THEN d
           ELSE Append(d, Head(certs)))

\* The deduped chain of the hinted chain of leaf: empty for no chain.
newDedupedChain(leaf, chain) == Slice(addCerts(leaf, chain.certs, <<>>))

\* f.QueueChain(cert, chain, roots) and the fixServer worker's receive from
\* the unbuffered f.toFix.
FixerQueueChain(cert, chain) ==
  /\ hinted' = [cert |-> cert, chain |-> chain]
  /\ toFix' = [cert |-> cert, chain |-> newDedupedChain(cert, chain)]
  /\ UNCHANGED <<loggerVars, fetcherVars, hammerVars, rootVars, funcVars, reconstructed,
                 notReconstructed, fixed, notFixed, completed, ferrs>>

(***************************************************************************)
(* The hammer (src/trillian/integration/hammer.go)                         *)
(***************************************************************************)
\* largest cfg.Operations
MaxOps == 3

\* largest number of requests one hammer run makes
MaxReqs == 3

\* The entry points the hammer chooses from.
AddChainName == "AddChain"
GetSTHName == "GetSTH"
GetRootsName == "GetRoots"
Entrypoints == {AddChainName, GetSTHName, GetRootsName}

\* What s.client().GetSTH(ctx) returns: an STH of some tree size and no
\* error, or no STH and an error.
GetSTHResponses ==
  {[sth |-> STH(n), err |-> FALSE] : n \in 0..MaxTree}
    \union {[sth |-> NilSTH, err |-> TRUE]}

\* s.sth after getSTH got rsp from the log: the earlier STHs are shuffled
\* along, the last one drops off, and what GetSTH returned is put in sth[0].
getSTH(s, rsp) ==
  [i \in 0..(sthCount - 1) |-> IF i = 0 THEN rsp.sth ELSE s[i - 1]]

\* What an operation returns: nil, errSkip or another error.
OpResults == {"nil", "skip", "err"}

\* What performInvalidOp(ep) can return.
InvalidResults(ep) ==
  IF ep \in {GetSTHName, GetRootsName} THEN {"err"} ELSE {"nil", "err"}

\* HammerCTLog after retryOneOp returned: an error ends the run, and so does
\* a cancelled context; otherwise the loop goes on with count + 1.
opReturns(failed) ==
  IF failed \/ hctxDone
    THEN hpc' = "failed" /\ hcount' = hcount
    ELSE hpc' = "loop" /\ hcount' = hcount + 1

\* The loop of HammerCTLog finds count < cfg.Operations and calls
\* retryOneOp, which chooses the entry point ep; an invalid operation is
\* performed at once, a valid one in the retry loop.
retryOneOp(ep, invalid, res) ==
  /\ hpc = "loop"
  /\ hcount < hOperations
  /\ hcalls' = hcalls + 1
  /\ IF invalid
       THEN /\ res \in InvalidResults(ep)
            /\ opReturns(res = "err")
            /\ hep' = hep
       ELSE /\ hpc' = "op"
            /\ hep' = ep
            /\ hcount' = hcount
  /\ UNCHANGED <<loggerVars, fetcherVars, rootVars, fixerVars, funcVars,
                 hOperations, hIgnoreErrors, hsth, hlast, hreqs, herrs, hctxDone>>

\* One round of the retry loop of retryOneOp: performOp waits for the
\* limiter (limited: the wait failed) and performs the operation; rsp is
\* the answer of the log to get-sth, res the result of another operation,
\* left whether the retry deadline has not passed.
performOp(limited, rsp, res, left) ==
  /\ hpc = "op"
  /\ IF hctxDone
       THEN /\ hpc' = "failed"
            /\ UNCHANGED <<hcount, hsth, hlast, hreqs, herrs>>
       ELSE /\ hreqs < MaxReqs
            /\ hreqs' = hreqs + 1
            /\ LET isGet == ~limited /\ hep = GetSTHName
                   err == IF limited THEN "err"
                          ELSE IF isGet THEN (IF rsp.err THEN "err" ELSE "nil")
                          ELSE res
               IN /\ hsth' = IF isGet THEN getSTH(hsth, rsp) ELSE hsth
                  /\ hlast' = IF isGet /\ ~rsp.err THEN rsp.sth ELSE hlast
                  /\ IF err \in {"nil", "skip"}
                       THEN opReturns(FALSE) /\ herrs' = herrs
                       ELSE /\ herrs' = herrs + 1
                            /\ hcount' = hcount
                            /\ hpc' = IF hIgnoreErrors /\ left
                                        THEN "op" ELSE "failed"
  /\ UNCHANGED <<loggerVars, fetcherVars, rootVars, fixerVars, funcVars,
                 hOperations, hIgnoreErrors, hep, hcalls, hctxDone>>

\* The loop of HammerCTLog finds count >= cfg.Operations: it logs
\* "completed cfg.Operations operations on log" and returns nil.
HammerCompleted ==
  /\ hpc = "loop"
  /\ ~(hcount < hOperations)
  /\ hpc' = "completed"
  /\ UNCHANGED <<loggerVars, fetcherVars, rootVars, fixerVars, funcVars,
                 hOperations, hIgnoreErrors, hcount, hep, hsth, hlast, hcalls,
                 hreqs, herrs, hctxDone>>

\* The caller of HammerCTLog cancels its context.
HammerCancel ==
  /\ hpc \in {"loop", "op"}
  /\ ~hctxDone
  /\ hctxDone' = TRUE
  /\ UNCHANGED <<loggerVars, fetcherVars, rootVars, fixerVars, funcVars,
                 hOperations, hIgnoreErrors, hcount, hpc, hep, hsth, hlast,
                 hcalls, hreqs, herrs>>

\* HammerCTLog(ctx, cfg) has made its hammerState and is about to loop.
HammerInit ==
  /\ hOperations \in 0..MaxOps
  /\ hIgnoreErrors \in BOOLEAN
  /\ hcount = 1
  /\ hpc = "loop"
  /\ hep = "none"
  /\ hsth = NoSTHs
  /\ hlast = NilSTH
  /\ hcalls = 0 /\ hreqs = 0 /\ herrs = 0
  /\ hctxDone = FALSE

\* No Logger: the state of the logger variables while the Fetcher runs.
LoggerIdle ==
  /\ workerCount = 0
  /\ postCertCache = {}
  /\ postChainCache = {}
  /\ queued = 0 /\ posted = 0 /\ reposted = 0 /\ chainReposted = 0 /\ active = 0
  /\ wg = 0
  /\ cpc = [c \in Callers |-> "idle"]
  /\ cchain = [c \in Callers |-> NilChain]
  /\ calls = 0
  /\ wpc = [w \in 1..MaxWorkers |-> "recv"]
  /\ wtask = [w \in 1..MaxWorkers |-> NoTask]
  /\ mainPc = "off"
  /\ errClosed = FALSE
  /\ errorsRecv = EmptyBag
  /\ panicked = FALSE
  /\ addCalls = EmptyBag
  /\ addFailed = EmptyBag
  /\ succeeded = {}
  /\ enqueued = EmptyBag

InitLogger == LoggerInit /\ FetcherIdle /\ FixIdle

InitFetcher == FetcherInit /\ notesEmpty = FALSE /\ LoggerIdle /\ FixIdle

InitFetcherNoting == FetcherInit /\ notesEmpty = TRUE /\ LoggerIdle /\ FixIdle

\* The Logger with its callers, workers and owner.
SpecLogger == InitLogger /\ [][LoggerNext]_vars

\* A non-nil chain of length zero: []*x509.Certificate{}.
EmptyChain == Slice(<<>>)

LoggerAnyChainNext ==
  \/ LoggerNext
  \/ \E c \in Callers : QueueChain(c, EmptyChain)

\* The Logger with callers that also pass chains of length zero.
SpecLoggerAnyChain == InitLogger /\ [][LoggerAnyChainNext]_vars

\* The Fetcher with its Run, generator, workers and the callers of Stop.
SpecFetcher == InitFetcher /\ [][FetcherNext]_vars

\* The Fetcher run with a callback that notes the batches of no entries.
SpecFetcherNoting == InitFetcherNoting /\ [][FetcherNext]_vars

InitRootCerts == RootIdle /\ FixerIdle /\ FuncIdle /\ LoggerIdle /\ FetcherIdle
  /\ HammerIdle

RootCertsNext == \E resps \in RootResponses : RootCerts(resps)

\* A Logger whose owner calls RootCerts, the log answering as it likes.
SpecRootCerts == InitRootCerts /\ [][RootCertsNext]_vars

InitFunctions == FuncInit /\ RootIdle /\ FixerIdle /\ LoggerIdle /\ FetcherIdle
  /\ HammerIdle

FunctionsNext ==
  \/ hashCall
  \/ hashChainCall
  \/ hashBagCall
  \/ removeSuperChainsCall

\* The functions of package fixchain, each applied to arguments of its kind.
SpecFunctions == InitFunctions /\ [][FunctionsNext]_vars

InitFixer == FixerIdle /\ RootIdle /\ FuncIdle /\ LoggerIdle /\ FetcherIdle
  /\ HammerIdle

FixerNext ==
  \/ \E errs \in ErrorLists : updateCounters(errs)
  \/ \E chain \in HintedChains : FixerQueueChain(googleLeaf, chain)

\* A Fixer whose workers complete tasks and whose owner queues chains.
SpecFixer == InitFixer /\ [][FixerNext]_vars

InitHammer ==
  HammerInit /\ RootIdle /\ FixerIdle /\ FuncIdle /\ LoggerIdle /\ FetcherIdle

HammerNext ==
  \/ \E ep \in Entrypoints, invalid \in BOOLEAN, res \in OpResults :
       retryOneOp(ep, invalid, res)
  \/ \E limited \in BOOLEAN, rsp \in GetSTHResponses, res \in OpResults,
        left \in BOOLEAN : performOp(limited, rsp, res, left)
  \/ HammerCompleted
  \/ HammerCancel

\* One run of HammerCTLog against a log that answers as it likes.
SpecHammer == InitHammer /\ [][HammerNext]_vars

\* The steps of the QueueChain call of caller c up to its send on toPost.
callerSteps(c) == QueueChainGet(c) \/ QueueChainSet(c) \/ postToLog(c)

\* The steps of the postServer goroutine w: the receive from toPost and
\* postChain, whose limiter.Wait and AddChain calls return and whose error
\* is received by the consumer of the error channel.
workerSteps(w) ==
  \/ \E c \in Callers : postServer(w, c)
  \/ postChain(w)
  \/ postChainLimiterWait(w)
  \/ postChainAddChain(w)
  \/ \E ok \in BOOLEAN : postChainReply(w, ok)
  \/ postChainError(w)
  \/ postChainCacheSet(w)
  \/ postServerDeactivate(w)
  \/ postServerDone(w)

\* The Logger under the scheduling of the Go runtime: while some goroutine
\* can step, one of them does; limiter.Wait and AddChain return, and the
\* consumer of the error channel receives what is sent. This asks less than
\* fairness to each goroutine, which the runtime also gives. When QueueChain
\* and Wait are called is up to the callers and carries no fairness.
FairSpecLogger ==
  /\ SpecLogger
  /\ WF_vars(\/ \E c \in Callers : callerSteps(c)
             \/ \E w \in 1..MaxWorkers : workerSteps(w)
             \/ Wait)

\* A GetRawEntries request of worker w that succeeds with at least one entry.
runWorkerProgress(w) == \E n \in 1..MaxBatch : runWorker(w, TRUE, n)

\* The Fetcher under the scheduling of the Go runtime: a goroutine that can
\* step does step; a select whose <-ctx.Done() case can proceed again and
\* again takes it in the end; every GetRawEntries request succeeds in the end.
\* Stop, the cancellation of Run's context and the growth of the log are up
\* to the environment and carry no fairness. The steps of one goroutine are
\* enabled one at a time, so each goroutine gets one fairness condition.
FairSpecFetcher ==
  /\ SpecFetcher
  /\ WF_vars(Run \/ Prepare(TRUE) \/ Prepare(FALSE) \/ RunInstallCancel
             \/ RunStart \/ RunReturn)
  /\ WF_vars(genRanges
             \/ (\E ok \in BOOLEAN, size \in 0..MaxTree, quick \in BOOLEAN :
                   updateSTH(ok, size, quick))
             \/ (\E w \in Fetchers : genRangesSend(w)))
  /\ SF_vars(genRangesCancelled)
  /\ \A w \in Fetchers : WF_vars(runWorkerProgress(w) \/ runWorkerClosed(w))

\* The options of a Fetcher whose BatchSize was left at zero or set to it;
\* NewFetcher takes the options as they are.
FetcherOptionsAnyBatch ==
  [BatchSize : 0..MaxBatch, ParallelFetch : 1..MaxFetch, StartIndex : 0..1,
   EndIndex : {0, 1}, Continuous : BOOLEAN]

\* NewFetcher with any of these options.
InitFetcherAnyBatch ==
  /\ opts \in FetcherOptionsAnyBatch
  /\ sth = NilSTH /\ cancelSet = FALSE
  /\ treeSize \in 0..MaxTree
  /\ ctxDone = FALSE /\ cctxCancelled = FALSE
  /\ runPc = "new"
  /\ gpc = "off" /\ gstart = 0 /\ gend = 0 /\ gnext = NoRange
  /\ fpc = [w \in Fetchers |-> "off"]
  /\ frange = [w \in Fetchers |-> NoRange]
  /\ startsOk = TRUE /\ delivered = [i \in Indices |-> 0]
  /\ handed = {} /\ stopped = FALSE /\ stoppedInRun = FALSE /\ fetchFailed = FALSE
  /\ emptyBatch = FALSE
  /\ notesEmpty = FALSE
  /\ LoggerIdle /\ FixIdle

\* The Fetcher with any batch size, under the scheduling of FairSpecFetcher.
FairSpecFetcherAnyBatch ==
  /\ InitFetcherAnyBatch /\ [][FetcherNext]_vars
  /\ WF_vars(Run \/ Prepare(TRUE) \/ Prepare(FALSE) \/ RunInstallCancel
             \/ RunStart \/ RunReturn)
  /\ WF_vars(genRanges
             \/ (\E ok \in BOOLEAN, size \in 0..MaxTree, quick \in BOOLEAN :
                   updateSTH(ok, size, quick))
             \/ (\E w \in Fetchers : genRangesSend(w)))
  /\ SF_vars(genRangesCancelled)
  /\ \A w \in Fetchers : WF_vars(runWorkerProgress(w) \/ runWorkerClosed(w))

(***************************************************************************)
(* Properties of the Fetcher                                               *)
(***************************************************************************)
\* Run has returned.
RunReturned == runPc \in {"done", "failed"}

\* C3: in non-continuous mode, with no Stop, no cancellation and a log that
\* returns at least one entry per successful request (or, as here, any number
\* from none to all of those requested), the batches passed to
\* the callback tile [StartIndex, EndIndex) exactly when Run returns (nil,
\* from its wg.Wait): every index of the range is delivered once, none outside
\* it, and each batch's Start is the index of its first entry.
C3_BatchesTileRange ==
  (runPc = "done" /\ ~opts.Continuous /\ ~stoppedInRun /\ ~ctxDone) =>
     /\ \A i \in Indices :
          delivered[i] = IF opts.StartIndex <= i /\ i < opts.EndIndex THEN 1 ELSE 0
     /\ startsOk

\* C3 witness: Run returned from a range of several requests and two workers.
C3_Witness ==
  /\ runPc = "done" /\ ~opts.Continuous /\ ~stoppedInRun /\ ~ctxDone
  /\ opts.EndIndex - opts.StartIndex >= 2 /\ opts.ParallelFetch >= 2
  /\ Cardinality(handed) >= 2
  /\ \A i \in opts.StartIndex..(opts.EndIndex - 1) : delivered[i] = 1

\* C4: if Stop() is called at any moment after Run has been invoked (Prepare
\* included), Run eventually returns, in continuous mode as well.
C4_StopEndsRun == stoppedInRun ~> RunReturned

\* A Stop that found Run's cancel function installed does end Run.
StopAfterInstallEndsRun == stopped ~> RunReturned

\* C5: Stop is a drain: every fetchRange a worker received is fetched to its
\* end and delivered before Run returns, unless Run's context is cancelled.
C5_StopDrains ==
  (runPc = "done" /\ ~ctxDone) =>
     \A r \in handed : \A i \in r.start..r.end : delivered[i] >= 1

\* C5 witness: Run returned after a Stop that cut the generation short, with
\* ranges handed out.
C5_Witness ==
  /\ runPc = "done" /\ ~ctxDone /\ stopped /\ handed # {}
  /\ \E i \in opts.StartIndex..(opts.EndIndex - 1) : delivered[i] = 0

\* C6: after Stop() has returned (Run having installed its cancel function),
\* the range generator hands no further fetchRange to any worker.
C6_NoRangeAfterStop == [][stopped => handed' = handed]_vars


(***************************************************************************)
(* Properties of the Logger                                                *)
(***************************************************************************)
\* A worker's AddChain request goes out in this step.
AddChainStarts(w) == wpc[w] = "post" /\ wpc'[w] = "reply"

\* C1: once an AddChain call for a chain with leaf L has returned success, no
\* AddChain call for any chain with the same leaf L is started afterwards.
C1_NoAddChainAfterSuccess ==
  [][\A w \in 1..MaxWorkers :
       AddChainStarts(w) => wtask[w].certs[1] \notin succeeded]_vars

\* C2: AddChain is invoked at most once per distinct hashChain value, also
\* with concurrent QueueChain callers passing equal chains.
C2_AddChainOncePerChain ==
  \A h \in BagToSet(addCalls) : CopiesIn(h, addCalls) <= 1

\* Wait has returned.
WaitReturned == mainPc \in {"waited", "closed"}

\* C7: after Wait() returns, every leaf for which some AddChain call returned
\* success is in postCertCache (IsPosted is true).
C7_PostedLeavesCachedAfterWait ==
  WaitReturned => \A leaf \in succeeded : hash(leaf) \in postCertCache

\* C7 witness: Wait returned after a successful post.
C7_Witness == WaitReturned /\ succeeded # {}

\* C8: postCertCache[h] implies an AddChain call for a chain whose leaf hashes
\* to h has returned success, and only line 181 of postChain sets an entry.
C8_CacheImpliesAccepted ==
  /\ [](\A h \in postCertCache : \E leaf \in succeeded : hash(leaf) = h)
  /\ [][postCertCache' # postCertCache =>
          \E w \in 1..MaxWorkers : wpc[w] = "cache" /\ wpc'[w] = "deactivate"]_vars

\* C8 witness: the cache holds an entry.
C8_Witness == postCertCache # {}

\* Every PostTask enqueued so far is completely processed.
Drained ==
  /\ \A c \in Callers : cpc[c] # "send"
  /\ \A w \in 1..MaxWorkers : wpc[w] = "recv"
  /\ active = 0
  /\ BagCardinality(errorsRecv) = BagCardinality(addFailed)

\* C9: Wait() returns only when every enqueued PostTask is completely
\* processed (none waiting on toPost, active = 0, every LogPostFailed error
\* received), so closing the error channel after Wait() never meets a send.
C9_WaitReturnsWhenDrained ==
  /\ wg = 0 => Drained
  /\ WaitReturned => wg = 0
  /\ ~panicked

\* C9 witness: the error channel was closed after a failed post.
C9_Witness == mainPc = "closed" /\ BagCardinality(addFailed) > 0

\* The workers that hold a failed task and have not yet sent its error.
ErrorsPending(chain) == {w \in 1..MaxWorkers : wpc[w] = "error" /\ wtask[w] = chain}

\* C10: when AddChain returns an error for a PostTask, the worker sends exactly
\* one FixError of type LogPostFailed with the task's chain and leaves
\* postCertCache unchanged.
C10_FailureSendsOneError ==
  /\ [](\A chain \in Chains :
          CopiesIn(FixError(chain), errorsRecv) + Cardinality(ErrorsPending(chain))
            = CopiesIn(chain, addFailed))
  /\ [](\A e \in BagToSet(errorsRecv) : e.Type = LogPostFailed /\ e.Chain \in Chains)
  /\ [][\A w \in 1..MaxWorkers :
          /\ (wpc[w] = "reply" /\ wpc'[w] = "error") => postCertCache' = postCertCache
          /\ (wpc[w] = "error" /\ wpc'[w] # "error") =>
               /\ wpc'[w] = "deactivate"
               /\ postCertCache' = postCertCache
               /\ errorsRecv' = errorsRecv (+) SetToBag({FixError(wtask[w])})]_vars

\* C10 witness: an error of a failed post has been received.
C10_Witness == BagCardinality(errorsRecv) > 0

\* C11: postChainCache never loses a key, whether the post succeeds or fails;
\* a QueueChain call that finds its chain's hashChain in postChainCache returns
\* at once (no wg.Add, no send on toPost) and increments chainReposted by
\* exactly one and nothing else; a call that finds the leaf in postCertCache
\* increments reposted instead and never looks at postChainCache.
C11_ChainCacheSticky ==
  [][ /\ postChainCache \subseteq postChainCache'
      /\ \A c \in Callers :
            /\ ( /\ cpc[c] = "chain" /\ cpc'[c] # "chain"
                 /\ hashChain(cchain[c].certs) \in postChainCache )
               => /\ cpc'[c] = "idle"
                  /\ chainReposted' = chainReposted + 1
                  /\ reposted' = reposted /\ queued' = queued
                  /\ wg' = wg /\ wtask' = wtask
            /\ (cpc[c] = "idle" /\ cpc'[c] = "chain")
               => /\ hash(cchain'[c].certs[1]) \notin postCertCache
                  /\ reposted' = reposted /\ chainReposted' = chainReposted
      /\ (calls' = calls + 1 /\ cpc' = cpc /\ queued' = queued + 1)
           => /\ reposted' = reposted + 1 /\ chainReposted' = chainReposted
              /\ wg' = wg /\ wtask' = wtask
    ]_vars

\* A chain whose post failed has been queued again and was suppressed.
C11_Witness == chainReposted > 0 /\ BagCardinality(addFailed) > 0

\* No QueueChain call is in progress.
CallersIdle == \A c \in Callers : cpc[c] = "idle"

\* C12 (as stated): queued equals the number of toPosts QueueChain has
\* enqueued, so a call suppressed by postCertCache or postChainCache does not
\* count; compared whenever no QueueChain call is in progress.
C12_QueuedEqualsEnqueued == CallersIdle => queued = BagCardinality(enqueued)

\* C12 (amended): queued counts the QueueChain calls made with a non-nil chain,
\* suppressed or not: a call that increments reposted or goes on to the
\* postChainCache lookup increments queued by exactly one in the same step, and
\* nothing but the start of a QueueChain call changes queued; so queued is never
\* less than the number of toPosts enqueued.
C12_QueuedCountsCalls ==
  /\ [](queued >= BagCardinality(enqueued))
  /\ [][ /\ (calls' = calls + 1 /\ (reposted' # reposted \/ cpc' # cpc))
             => (queued' = queued + 1)
         /\ (queued' # queued) => (calls' = calls + 1 /\ queued' = queued + 1)
       ]_vars

\* Two calls were counted, one was enqueued and the other suppressed.
C12_Witness == CallersIdle /\ queued = 2 /\ BagCardinality(enqueued) = 1 /\ reposted + chainReposted > 0

\* The callers that have marked chain hash h and are inside postToLog, before
\* or at the send on l.toPost.
Enqueueing(h) ==
  {c \in Callers : cpc[c] \in {"add", "send"} /\ hashChain(cchain[c].certs) = h}

\* C13 (as stated): in every reachable state, postChainCache[h] implies that a
\* toPost for a chain of hashChain h has already been sent on l.toPost.
C13_CachedChainWasEnqueued == \A h \in postChainCache : BagIn(h, enqueued)

\* C13 (amended): in every reachable state, postChainCache[h] implies that a
\* toPost for a chain of hashChain h has been sent on l.toPost or that a
\* QueueChain call that marked h is inside postToLog, about to send it or
\* blocked sending it.
C13_CachedChainEnqueuedOrBlocked ==
  \A h \in postChainCache : BagIn(h, enqueued) \/ Enqueueing(h) # {}

\* A marked chain whose toPost has been received by a worker.
C13_Witness == \E h \in postChainCache : BagIn(h, enqueued)

\* The callers blocked in the send of postToLog, and the workers holding a toPost.
Blocked == {c \in Callers : cpc[c] = "send"}
Busy == {w \in 1..MaxWorkers : wpc[w] # "recv"}

\* C14: l.toPost is unbuffered. A QueueChain call that has passed both cache
\* checks returns only in a step in which a started postServer that was waiting
\* in its receive takes that call's toPost; so with every worker busy, or none
\* started, a blocked caller stays blocked. The active requests that no worker
\* has received (wg minus the workers holding one) are those of the callers
\* blocked in the send, one each.
C14_SendWaitsForWorker ==
  /\ [](wg - Cardinality(Busy) = Cardinality(Blocked))
  /\ [][ \A c \in Callers :
           (cpc[c] \in {"set", "add", "send"} /\ cpc'[c] = "idle")
             => /\ cpc[c] = "send"
                /\ \E w \in Workers : /\ wpc[w] = "recv" /\ wpc'[w] # "recv"
                                       /\ wtask'[w] = cchain[c]
       ]_vars

\* A caller is blocked in the send while every one of the started workers is busy.
C14_Witness ==
  /\ Blocked # {}
  /\ workerCount > 0
  /\ \A w \in Workers : wpc[w] # "recv"

(***************************************************************************)
(* Properties of the range generator                                       *)
(***************************************************************************)
\* The step in which the generator's send of its next range is received.
RangeSent == gpc = "select" /\ gpc' = "loop"

\* The generator has not been told to stop: no effective Stop, no cancellation
\* of Run's context.
Uncancelled == ~stopped /\ ~ctxDone

\* C15: with BatchSize >= 1 and StartIndex <= EndIndex, the ranges sent by
\* genRanges are strictly increasing and contiguous: the first starts at
\* StartIndex, every other one right after the end of the one sent before it
\* and after the end of all sent earlier; each has 1 to BatchSize indices and
\* ends at min(start + BatchSize, EndIndex) - 1; each is received by exactly
\* one worker; and in non-continuous mode the channel is closed by the
\* generator, when it was not told to stop, only after a range ending at
\* EndIndex - 1 (or at once when the range is empty).
C15_RangesContiguous ==
  /\ [][ (RangeSent /\ opts.BatchSize >= 1 /\ opts.StartIndex <= opts.EndIndex)
          => /\ IF handed = {}
                  THEN gnext.start = opts.StartIndex
                  ELSE /\ \E r \in handed : gnext.start = r.end + 1
                       /\ \A r \in handed : r.end < gnext.start
             /\ gnext.end - gnext.start + 1 \in 1..opts.BatchSize
             /\ gnext.end = min(gnext.start + opts.BatchSize, opts.EndIndex) - 1
             /\ handed' = handed \cup {gnext}
             /\ Cardinality({w \in Fetchers : frange'[w] # frange[w]}) = 1
             /\ \E w \in Fetchers : fpc[w] = "recv" /\ frange'[w] = gnext
       ]_vars
  /\ []( ( /\ gpc = "closed" /\ ~opts.Continuous /\ Uncancelled
           /\ opts.StartIndex <= opts.EndIndex )
         => IF opts.StartIndex = opts.EndIndex
              THEN handed = {}
              ELSE \E r \in handed : r.end = opts.EndIndex - 1 )

\* The generator has sent two ranges or more and closed the channel on its own.
C15_Witness ==
  /\ gpc = "closed" /\ ~opts.Continuous /\ Uncancelled
  /\ Cardinality(handed) >= 2

\* C16: in continuous mode the generator sends nothing while its start equals
\* EndIndex; EndIndex then changes only when updateSTH accepts a larger tree
\* size, and the generator resumes with a range that starts exactly at the old
\* EndIndex, right after the last range sent and overlapping none; the range
\* channel is closed only when the generator's context is cancelled.
C16_ContinuousResumesAtEnd ==
  [][ opts.Continuous =>
        /\ RangeSent => gstart # opts.EndIndex
        /\ (gpc # "off" /\ opts.EndIndex' # opts.EndIndex)
             => /\ gpc = "update" /\ gpc' = "select"
                /\ gstart = opts.EndIndex
                /\ opts.EndIndex' > opts.EndIndex
                /\ opts.EndIndex' = treeSize' /\ sth'.TreeSize = treeSize'
                /\ gnext'.start = opts.EndIndex
                /\ gnext'.end >= gnext'.start
                /\ \A r \in handed : r.end < gnext'.start
                /\ (\E r \in handed : r.start <= r.end)
                     => \E r \in handed : r.end + 1 = gnext'.start
        /\ (gpc # "closed" /\ gpc' = "closed") => CctxDone
    ]_vars

\* In continuous mode a range was cut short by EndIndex and, the log having
\* grown, the range that starts right after it has been sent too.
C16_Witness ==
  /\ opts.Continuous
  /\ \E r1, r2 \in handed :
        /\ r1.start <= r1.end
        /\ r1.end - r1.start + 1 < opts.BatchSize
        /\ r2.start = r1.end + 1

(***************************************************************************)
(* Properties of the fetcher workers                                       *)
(***************************************************************************)
\* delivered after n more entries from index start on have been passed to fn.
DeliveredPlus(start, n) ==
  [i \in Indices |-> delivered[i] + (IF start <= i /\ i < start + n THEN 1 ELSE 0)]

\* Index i of range r has been passed to fn, or a worker still holds the rest
\* of r from an index no greater than i.
Accounted(r, i) ==
  \/ delivered[i] >= 1
  \/ \E w \in Fetchers : /\ fpc[w] = "fetch"
                          /\ frange[w].end = r.end /\ frange[w].start <= i

\* C17: a worker does not abandon or skip part of its range because
\* GetRawEntries failed. While Run's context is not cancelled, a failed request
\* leaves the worker with the same [start, end] to request again; a step of a
\* worker that changes its range is a successful response of n entries, which
\* passes exactly the n entries from start on to fn and moves start on by n;
\* so every index of every range handed out has been delivered or is still
\* held by a worker.
C17_FailedFetchRetried ==
  /\ [][ \A w \in Fetchers : (fpc[w] = "fetch" /\ ~ctxDone) =>
           /\ fetchFailed' # fetchFailed
                => (fpc'[w] = "fetch" /\ frange' = frange /\ delivered' = delivered)
           /\ \/ fpc'[w] = "fetch" /\ frange'[w] = frange[w]
              \/ \E n \in 0..(frange[w].end - frange[w].start + 1) :
                   /\ delivered' = DeliveredPlus(frange[w].start, n)
                   /\ IF frange[w].start + n <= frange[w].end
                        THEN /\ fpc'[w] = "fetch"
                             /\ frange'[w] = fetchRange(frange[w].start + n, frange[w].end)
                        ELSE fpc'[w] = "recv"
       ]_vars
  /\ [](~ctxDone => \A r \in handed : \A i \in r.start..r.end : Accounted(r, i))

\* A GetRawEntries request has failed, and a range of two indices or more has
\* been delivered whole with no worker left fetching.
C17_Witness ==
  /\ fetchFailed /\ ~ctxDone
  /\ \A w \in Fetchers : fpc[w] # "fetch"
  /\ \E r \in handed : r.start < r.end /\ \A i \in r.start..r.end : delivered[i] >= 1

\* The range generator has ended (or was never started): it sends no range.
GeneratorEnded == gpc \in {"off", "closed"}

\* C18: once the context passed to Run is cancelled, no worker makes a
\* GetRawEntries request (a request with its response is one step here, so the
\* attempt under way at the cancellation has returned): a worker that was
\* fetching can only return, with nothing more passed to fn; and from then on
\* the range generator ends and Run returns. A cancelled context stays
\* cancelled and a Run that returned stays returned, so "cancelled leads to
\* ended and returned" is stated as: again and again, the context is not
\* cancelled or the generator has ended and Run has returned.
C18_CancelEndsRun ==
  /\ [][ ctxDone =>
           /\ delivered' = delivered /\ fetchFailed' = fetchFailed
           /\ \A w \in Fetchers :
                fpc[w] = "fetch" => /\ fpc'[w] \in {"fetch", "exit"}
                                    /\ frange'[w] = frange[w]
       ]_vars
  /\ []<>(~ctxDone \/ (GeneratorEnded /\ RunReturned))

\* Run has returned after a cancellation that left part of a handed range
\* unfetched.
C18_Witness ==
  /\ ctxDone /\ RunReturned /\ GeneratorEnded
  /\ \E r \in handed : \E i \in r.start..r.end : delivered[i] = 0

(***************************************************************************)
(* Properties of Prepare                                                   *)
(***************************************************************************)
\* Run has gone past its call of Prepare.
RunPrepared == runPc \in {"install", "start", "wait", "done"}

\* C19: if GetSTH fails inside Prepare, Run returns the error: the step that
\* makes Run fail is its Prepare finding no cached STH, and it changes neither
\* the STH (still nil) nor the options; a failed Run has started no generator
\* and no worker, has passed nothing to fn, and does nothing more; Run goes
\* past Prepare only with an STH; and as long as no STH is cached EndIndex is
\* the one the Fetcher was created with.
C19_PrepareFailureEndsRun ==
  /\ []( runPc = "failed" =>
           /\ sth = NilSTH /\ ~cancelSet
           /\ gpc = "off" /\ \A w \in Fetchers : fpc[w] = "off"
           /\ handed = {} /\ \A i \in Indices : delivered[i] = 0 )
  /\ [](RunPrepared => ~sth.isNil)
  /\ [][ /\ (runPc # "failed" /\ runPc' = "failed")
             => (runPc = "prepare" /\ sth.isNil /\ sth' = sth /\ opts' = opts)
         /\ runPc = "failed" => UNCHANGED fetcherVars
         /\ sth'.isNil => opts' = opts
       ]_vars

\* Run has returned the error of GetSTH; the Fetcher had been asked for a range
\* that Prepare would have cut.
C19_Witness == runPc = "failed" /\ opts.EndIndex > treeSize

\* EndIndex as Prepare fits it to a tree of the given size.
FittedEndIndex(end, size) == IF end = 0 \/ end > size THEN size ELSE end

\* C20: the Prepare that succeeds in getting an STH caches it and sets EndIndex
\* to the tree size if EndIndex was 0 or greater than the tree size, leaving
\* it as it was otherwise, and the other options as they were; with an STH
\* cached, a Prepare (the owner's or Run's) cannot fail, as GetSTH is not
\* called, and changes neither the cached STH nor the options.
C20_PrepareFitsAndCaches ==
  [][ /\ (sth.isNil /\ ~sth'.isNil)
          => /\ runPc \in {"new", "prepare"}
             /\ sth' = STH(treeSize)
             /\ opts' = [opts EXCEPT !.EndIndex = FittedEndIndex(opts.EndIndex, treeSize)]
      /\ (~sth.isNil /\ runPc \in {"new", "prepare"})
          => /\ sth' = sth /\ opts' = opts
             /\ runPc' # "failed"
             /\ runPc = "prepare" => runPc' \in {"prepare", "install"}
    ]_vars

\* The owner's Prepare has cached the STH of a tree of MaxTree leaves and set
\* an EndIndex of 0 to that size; Run, whose Prepare comes later, is not yet
\* invoked.
C20_Witness ==
  /\ runPc = "new" /\ ~sth.isNil
  /\ sth.TreeSize = MaxTree /\ opts.EndIndex = MaxTree

(***************************************************************************)
(* Properties of Logger.RootCerts                                          *)
(***************************************************************************)
\* The response resp is one a pool can be built from.
Usable(resp) == ~resp.err /\ \A i \in 1..Len(resp.roots) : ~resp.roots[i].isFatal

\* The certificates of the roots of resp.
RootsOf(resp) == {resp.roots[i].cert : i \in 1..Len(resp.roots)}

\* C21: RootCerts asks the log for its accepted roots until a request
\* succeeds, at most rootRetries times in all; it stores and returns the pool
\* built from the first response that succeeded; every later call returns
\* that same pool and asks the log nothing; when all rootRetries requests
\* fail the process is aborted and the call returns nothing.
C21_RootCertsFirstSuccess ==
  /\ [](Len(responses) <= rootRetries)
  /\ [](\A i \in 1..(Len(responses) - 1) : ~Usable(responses[i]))
  /\ [](roots.isNil => \A i \in 1..Len(responses) : ~Usable(responses[i]))
  /\ [](~roots.isNil =>
          /\ Len(responses) >= 1
          /\ Usable(responses[Len(responses)])
          /\ roots = CertPool(RootsOf(responses[Len(responses)])))
  /\ [](\A i \in 1..Len(returned) : ~returned[i].isNil /\ returned[i] = roots)
  /\ [](fatal <=> (roots.isNil /\ Len(responses) = rootRetries))
  /\ [](fatal => returned = <<>>)
  /\ [][~roots.isNil => (roots' = roots /\ responses' = responses)]_vars
  /\ [][rootCalls' # rootCalls =>
          (fatal' \/ (Len(returned') = Len(returned) + 1 /\ ~roots'.isNil))]_vars

\* A second RootCerts call has returned the pool a first call stored after
\* failed requests.
C21_Witness ==
  /\ Len(returned) = 2
  /\ Len(responses) > 1
  /\ returned[1] = returned[2]
  /\ returned[2].certs = {verisignRoot, comodoRoot}


(***************************************************************************)
(* Properties of the hash functions                                        *)
(***************************************************************************)
\* C22: hashBag gives a chain and every rearrangement of it the same value
\* and leaves the slices it is handed as they were; hashChain gives a chain
\* and a rearrangement that differs from it different values.
C22_BagOrderFreeChainOrdered ==
  /\ output.fn = "hashBag" =>
       /\ output.hash = output.hashPerm
       /\ output.chain = input.chain
       /\ output.perm = input.perm
  /\ (output.fn = "hashChain" /\ input.chain # input.perm) =>
       output.hash # output.hashPerm

\* hashBag has been applied to a chain of three certificates and a
\* rearrangement of it that hashChain tells apart.
C22_Witness ==
  /\ output.fn = "hashBag"
  /\ Len(input.chain) = 3
  /\ input.chain # input.perm
  /\ hashChain(input.chain) # hashChain(input.perm)
  /\ output.hash = output.hashPerm

\* C23: hash gives two certificates whose Raw differs different
\* identifiers.
C23_HashTellsCertsApart ==
  (output.fn = "hash" /\ input.a.Raw # input.b.Raw) => output.a # output.b

(***************************************************************************)
(* Properties of removeSuperChains                                         *)
(***************************************************************************)
\* The chain d is a proper prefix of the chain c.
ProperPrefix(d, c) == Len(d) < Len(c) /\ \A i \in 1..Len(d) : d[i] = c[i]

\* The chains of cs that have no other chain of cs as a proper prefix.
PrefixFree(cs) == {c \in Range(cs) : ~\E d \in Range(cs) : ProperPrefix(d, c)}

\* C24: removeSuperChains returns exactly the chains handed to it that have
\* no other chain handed to it as a proper prefix, each once; of
\* [G, T, V], [G, V] and [G, T] it returns [G, T] and [G, V].
C24_KeepsPrefixFreeChains ==
  output.fn = "removeSuperChains" =>
    /\ Range(output.kept) = PrefixFree(input.chains)
    /\ Len(output.kept) = Cardinality(PrefixFree(input.chains))
    /\ (Range(input.chains) = { <<googleLeaf, thawteIntermediate, verisignRoot>>,
                                <<googleLeaf, verisignRoot>>,
                                <<googleLeaf, thawteIntermediate>> }
          => Range(output.kept) = { <<googleLeaf, thawteIntermediate>>,
                                    <<googleLeaf, verisignRoot>> })

\* removeSuperChains has been applied to [G, T, V], [G, V] and [G, T].
C24_Witness ==
  /\ output.fn = "removeSuperChains"
  /\ input.chains = << <<googleLeaf, thawteIntermediate, verisignRoot>>,
                       <<googleLeaf, verisignRoot>>,
                       <<googleLeaf, thawteIntermediate>> >>
  /\ Len(output.kept) = 2

\* C25: removeSuperChains applied to its own result returns that result.
C25_RemoveSuperChainsIdempotent ==
  output.fn = "removeSuperChains" => output.again = output.kept

\* removeSuperChains has dropped a chain, and dropped none from its result.
C25_Witness ==
  /\ output.fn = "removeSuperChains"
  /\ Len(output.kept) < Len(input.chains)
  /\ Len(output.kept) > 1
  /\ output.again = output.kept

(***************************************************************************)
(* Properties of the Fixer                                                 *)
(***************************************************************************)
\* C26: each updateCounters call adds one to exactly one of reconstructed
\* and notReconstructed, to notReconstructed exactly when its errors hold a
\* VerifyFailed; only then it adds one to exactly one of fixed and notFixed,
\* to notFixed exactly when they hold a FixFailed; a ParseFailure changes
\* nothing. So reconstructed + notReconstructed is the number of completed
\* tasks and fixed + notFixed is notReconstructed.
C26_CountersPartitionTasks ==
  /\ [](reconstructed + notReconstructed = completed)
  /\ [](fixed + notFixed = notReconstructed)
  /\ [][IF completed' # completed
          THEN LET vf == hasType(ferrs', VerifyFailed)
                   ff == hasType(ferrs', FixFailed)
               IN  /\ completed' = completed + 1
                   /\ notReconstructed' = notReconstructed + Count(vf)
                   /\ reconstructed' = reconstructed + Count(~vf)
                   /\ notFixed' = notFixed + Count(vf /\ ff)
                   /\ fixed' = fixed + Count(vf /\ ~ff)
          ELSE UNCHANGED <<reconstructed, notReconstructed, fixed, notFixed>>]_vars

\* Two tasks are done: one fixed, one not, the last with a ParseFailure too.
C26_Witness ==
  /\ completed = 2
  /\ fixed = 1 /\ notFixed = 1
  /\ hasType(ferrs, ParseFailure)

RECURSIVE FirstOccurrences(_, _)
\* The elements of s that are not in seen, each where it occurs first.
FirstOccurrences(s, seen) ==
  IF s = <<>> THEN <<>>
  ELSE IF Head(s) \in seen THEN FirstOccurrences(Tail(s), seen)
  ELSE <<Head(s)>> \o FirstOccurrences(Tail(s), seen \cup {Head(s)})

\* C27: the toFix a worker receives holds the hinted chain with every
\* certificate once, in the order of the first occurrences, and without the
\* certificates equal to the leaf; [V, V, T] for the leaf G gives [V, T], no
\* chain gives the empty chain.
C27_WorkerGetsDedupedChain ==
  toFix # NoTask =>
    /\ toFix.cert = hinted.cert
    /\ ~toFix.chain.isNil
    /\ toFix.chain.certs = FirstOccurrences(hinted.chain.certs, {hinted.cert})
    /\ (hinted.chain.certs = <<verisignRoot, verisignRoot, thawteIntermediate>>
          => toFix.chain.certs = <<verisignRoot, thawteIntermediate>>)
    /\ (hinted.chain.isNil => toFix.chain.certs = <<>>)

\* A chain with a repeated certificate and the leaf in it has been queued.
C27_Witness ==
  /\ toFix # NoTask
  /\ hinted.chain.certs = <<verisignRoot, googleLeaf, verisignRoot>>
  /\ toFix.chain.certs = <<verisignRoot>>

(***************************************************************************)
(* Properties of Logger.postChain                                          *)
(***************************************************************************)
\* Worker w leaves the re-check of postCertCache.
Rechecked(w) == wpc[w] = "check" /\ wpc'[w] # "check"

\* l.limiter.Wait of worker w returns.
LimiterWaited(w) == wpc[w] = "limit" /\ wpc'[w] = "post"

\* C28: for each PostTask a worker first re-checks postCertCache, then
\* waits on the limiter, then calls AddChain: a worker reaches limiter.Wait
\* only from the re-check and AddChain only from limiter.Wait, holding the
\* same task; posted goes up by one with each AddChain call and not
\* otherwise; a task whose leaf is cached at the re-check adds one to
\* reposted and reaches neither limiter.Wait nor AddChain.
C28_RecheckWaitThenPost ==
  /\ [](posted = BagCardinality(addCalls))
  /\ [][\A w \in 1..MaxWorkers :
          /\ (wpc'[w] = "limit" /\ wpc[w] # "limit") => Rechecked(w)
          /\ (wpc'[w] = "post" /\ wpc[w] # "post") => LimiterWaited(w)
          /\ AddChainStarts(w) =>
               /\ posted' = posted + 1
               /\ addCalls' = addCalls (+) SetToBag({hashChain(wtask[w].certs)})
          /\ wpc[w] \in {"check", "limit", "post"} => wtask'[w] = wtask[w]
          /\ Rechecked(w) =>
               IF hash(wtask[w].certs[1]) \in postCertCache
                 THEN /\ wpc'[w] \notin {"limit", "post", "reply"}
                      /\ reposted' = reposted + 1
                      /\ posted' = posted /\ addCalls' = addCalls
                 ELSE /\ wpc'[w] = "limit"
                      /\ reposted' = reposted]_vars
  /\ [][posted' # posted => \E w \in 1..MaxWorkers : AddChainStarts(w)]_vars

\* A worker has dropped a task at the re-check, its leaf posted by another
\* worker in the meantime: no AddChain call was made for its chain.
C28_Witness ==
  \E w \in Workers :
    /\ wpc[w] = "deactivate"
    /\ hash(wtask[w].certs[1]) \in postCertCache
    /\ ~BagIn(hashChain(wtask[w].certs), addCalls)
    /\ posted = 1 /\ reposted = 1

(***************************************************************************)
(* Properties of the Fetcher's workers and of updateSTH                    *)
(***************************************************************************)
\* C29 as stated: a response of no entries is a failed attempt, for which
\* the callback is not invoked, so fn is never handed a batch of no entries.
C29_EmptyBatchNotDelivered == ~emptyBatch

\* C29 amended: a response of no entries for a range that is not empty is
\* no failed attempt: fn is invoked with the batch of no entries, and the
\* worker keeps the same [start, end] and requests it again.
C29_EmptyBatchDeliveredAndRetried ==
  /\ [][emptyBatch' # emptyBatch =>
          /\ \E w \in Fetchers : fpc[w] = "fetch" /\ frange[w].start <= frange[w].end
          /\ fpc' = fpc /\ frange' = frange
          /\ delivered' = delivered /\ startsOk' = startsOk
          /\ fetchFailed' = fetchFailed]_vars
  /\ [](emptyBatch /\ ~ctxDone =>
          \A r \in handed : \A i \in r.start..r.end : Accounted(r, i))

\* fn was handed a batch of no entries, no request has failed, and a range of
\* two indices has since been delivered whole.
C29_Witness ==
  /\ emptyBatch /\ ~fetchFailed /\ ~ctxDone
  /\ \A w \in Fetchers : fpc[w] # "fetch"
  /\ \E r \in handed : r.start < r.end /\ \A i \in r.start..r.end : delivered[i] >= 1

\* One attempt of updateSTH accepts the tree head of size it has fetched.
Accepts(ok, size, quick) ==
  /\ ok
  /\ size > opts.EndIndex
  /\ (size >= opts.EndIndex + opts.BatchSize \/ ~quick)

\* C30: an attempt of updateSTH whose context is not cancelled stores the
\* fetched tree head, sets EndIndex to its size and returns exactly when the
\* size is above the previous EndIndex and, besides, reaches the previous
\* EndIndex + BatchSize or the quick deadline has passed; every other
\* attempt, a GetSTH error included, changes nothing and polls again, and a
\* cancelled context ends the polling. So EndIndex grows with each successful
\* updateSTH and never goes down once Run has prepared.
C30_UpdateSTHAcceptsBiggerTree ==
  /\ [][\A ok \in BOOLEAN, size \in 0..MaxTree, quick \in BOOLEAN :
          updateSTH(ok, size, quick) =>
            IF ~CctxDone /\ Accepts(ok, size, quick)
              THEN /\ sth' = STH(size)
                   /\ opts' = [opts EXCEPT !.EndIndex = size]
                   /\ opts'.EndIndex > opts.EndIndex
                   /\ gpc' = "select"
              ELSE /\ sth' = sth /\ opts' = opts
                   /\ gpc' = IF CctxDone THEN "closed" ELSE "update"]_vars
  /\ [][gpc = "update" /\ opts' # opts => opts'.EndIndex > opts.EndIndex]_vars
  /\ [][runPc \notin {"new", "prepare"} => opts'.EndIndex >= opts.EndIndex]_vars

\* A continuous run with BatchSize 2 handed out [0, 0] when EndIndex was 1,
\* and updateSTH has since accepted a tree of size 2, less than a full batch
\* more, after the quick deadline.
C30_Witness ==
  /\ opts.Continuous /\ opts.BatchSize = 2 /\ opts.StartIndex = 0
  /\ fetchRange(0, 0) \in handed
  /\ opts.EndIndex = 2 /\ sth = STH(2)

(***************************************************************************)
(* Properties of the Fixer's counters and of the tests of package fixchain *)
(***************************************************************************)
\* The types of the errors errs, in order.
TypesOf(errs) == [i \in DOMAIN errs |-> errs[i].Type]

\* The last updateCounters call was for a leaf whose chain did not verify
\* and that was then fixed.
FixedTask(errs) == hasType(errs, VerifyFailed) /\ ~hasType(errs, FixFailed)

\* C31 as stated: a task with VerifyFailed and without FixFailed adds one to
\* reconstructed and to fixed and leaves notReconstructed as it was.
C31_FixedCountsAsReconstructed ==
  [][(completed' # completed /\ FixedTask(ferrs')) =>
       /\ reconstructed' = reconstructed + 1
       /\ fixed' = fixed + 1
       /\ notReconstructed' = notReconstructed]_vars

\* C31 amended: a task with VerifyFailed and without FixFailed adds one to
\* notReconstructed and to fixed and leaves reconstructed as it was; every
\* task whose errors are a row of counterTests changes the counters by what
\* the row expects of a new Fixer.
C31_FixedCountsAsNotReconstructed ==
  [][completed' # completed =>
       /\ FixedTask(ferrs') =>
            /\ notReconstructed' = notReconstructed + 1
            /\ fixed' = fixed + 1
            /\ reconstructed' = reconstructed
            /\ notFixed' = notFixed
       /\ \A t \in counterTests :
            TypesOf(ferrs') = t.errors =>
              /\ reconstructed' = reconstructed + t.reconstructed
              /\ notReconstructed' = notReconstructed + t.notReconstructed
              /\ fixed' = fixed + t.fixed
              /\ notFixed' = notFixed + t.notFixed]_vars

\* The first task of a Fixer had a VerifyFailed and no FixFailed.
C31_Witness ==
  /\ completed = 1
  /\ TypesOf(ferrs) = <<VerifyFailed>>
  /\ notReconstructed = 1 /\ fixed = 1 /\ reconstructed = 0

\* The chains [L, I, R], [L, R] and [L, I] of the leaf googleLeaf.
ThreeChains == { <<googleLeaf, thawteIntermediate, verisignRoot>>,
                 <<googleLeaf, verisignRoot>>,
                 <<googleLeaf, thawteIntermediate>> }

\* C32 as stated: of [L, I, R], [L, R] and [L, I] super-chain elimination
\* leaves the one chain [L, I].
C32_OnlyShortestPathLeft ==
  (output.fn = "removeSuperChains" /\ Range(input.chains) = ThreeChains) =>
    output.kept = << <<googleLeaf, thawteIntermediate>> >>

\* C32 amended: of [L, I, R], [L, R] and [L, I] super-chain elimination
\* leaves exactly two chains, [L, I] and [L, R]; on every row of
\* superChainsTests it leaves the chains the row expects, each once.
C32_TwoChainsLeft ==
  output.fn = "removeSuperChains" =>
    /\ Range(input.chains) = ThreeChains =>
         /\ Len(output.kept) = 2
         /\ Range(output.kept) = { <<googleLeaf, thawteIntermediate>>,
                                   <<googleLeaf, verisignRoot>> }
    /\ \A t \in superChainsTests :
         input.chains = t.chains =>
           /\ Range(output.kept) = t.expectedChains
           /\ Len(output.kept) = Cardinality(t.expectedChains)

\* Super-chain elimination has been applied to [L, I], [L, I, R], [L, R].
C32_Witness ==
  /\ output.fn = "removeSuperChains"
  /\ input.chains = << <<googleLeaf, thawteIntermediate>>,
                       <<googleLeaf, thawteIntermediate, verisignRoot>>,
                       <<googleLeaf, verisignRoot>> >>
  /\ output.kept = << <<googleLeaf, thawteIntermediate>>,
                      <<googleLeaf, verisignRoot>> >>

(***************************************************************************)
(* Ranges, termination and result of Fetcher.Run                           *)
(***************************************************************************)
\* C37: every GetRawEntries(start, end) request of a worker has
\* StartIndex <= start <= end, and end is less than the EndIndex the range
\* generator knew when it made the range the request belongs to.
C37_RequestsWithinBounds ==
  /\ [](\A w \in Fetchers :
         fpc[w] = "fetch" =>
           /\ opts.StartIndex <= frange[w].start
           /\ frange[w].start <= frange[w].end
           /\ \E r \in handed : r.start <= frange[w].start /\ r.end = frange[w].end)
  /\ [][\A w \in Fetchers :
          (genRangesSend(w) /\ gnext.start <= gnext.end) => gnext.end < gend]_vars

\* Run has returned and the range generator is not running.
RunTerminated == runPc \in {"done", "failed"} /\ gpc \in {"off", "closed"}

\* C38: in non-continuous mode, the log answering every GetRawEntries
\* request, Run returns in the end and the range generator has stopped,
\* whatever the options are.
C38_RunTerminates ==
  ([]~fetchFailed) => <>(opts.Continuous \/ RunTerminated)

\* The GetSTH call of the Prepare that Run makes fails.
RunGetSTHFails == runPc = "prepare" /\ sth.isNil /\ Prepare(FALSE)

\* Some entry of [StartIndex, EndIndex) was not given to the callback.
PartUndelivered ==
  \E i \in Indices :
    opts.StartIndex <= i /\ i < opts.EndIndex /\ delivered[i] = 0

\* C39: Run returns an error exactly when the GetSTH call of its Prepare
\* failed; every other return of Run is a return of nil, also after Stop
\* or the cancellation of the context and with part of the range undelivered.
C39_ErrorOnlyFromGetSTH ==
  /\ [][(runPc # "failed" /\ runPc' = "failed") <=> RunGetSTHFails]_vars
  /\ [][RunReturn => runPc' = "done"]_vars
  /\ [](runPc \in {"done", "failed"} => (runPc = "failed" <=> sth.isNil))

\* Run has returned nil after its context was cancelled, with part of the
\* range not delivered.
C39_Witness == runPc = "done" /\ ctxDone /\ PartUndelivered

(***************************************************************************)
(* Counters and progress of the Logger                                     *)
(***************************************************************************)
\* Wait has returned and no QueueChain call is in progress.
Quiescent == mainPc \in {"waited", "closed"} /\ \A c \in Callers : cpc[c] = "idle"

\* C35: queued is never less than posted + reposted + chainReposted and is
\* equal to it whenever the Logger is quiescent; posted is the number of
\* AddChain calls started.
C35_CountersBalance ==
  /\ queued >= posted + reposted + chainReposted
  /\ Quiescent => queued = posted + reposted + chainReposted
  /\ posted = BagCardinality(addCalls)

\* A quiescent Logger that has posted one chain and turned one away because
\* its leaf had been posted.
C35_Witness ==
  /\ Quiescent
  /\ queued = 2 /\ posted = 1 /\ reposted = 1

\* C36: with at least one postServer worker every QueueChain call returns,
\* and a Wait call returns: again and again no caller is inside QueueChain
\* and the owner is not inside Wait, so none of them stays there for ever.
C36_QueueChainAndWaitReturn ==
  []<>(workerCount = 0 \/ (CallersIdle /\ mainPc # "waiting"))

\* Wait has returned after both callers had a chain taken by a worker.
C36_Witness ==
  /\ workerCount >= 1
  /\ WaitReturned
  /\ BagCardinality(enqueued) = 2

\* A QueueChain call with a chain that has no leaf: nil or of length zero.
LeaflessCall ==
  \E c \in Callers, chain \in {NilChain, EmptyChain} : QueueChain(c, chain)

\* C40: QueueChain never crashes, and a call with a nil chain or with a
\* non-nil chain of length zero returns at once and changes no counter, no
\* cache and no queue.
C40_LeaflessChainsIgnored ==
  /\ []~panicked
  /\ [][LeaflessCall =>
          /\ cpc' = cpc
          /\ UNCHANGED <<queued, posted, reposted, chainReposted, postCertCache,
                         postChainCache, wg, active, cchain>>]_vars

(***************************************************************************)
(* Properties of the hammer                                                *)
(***************************************************************************)
\* C33: a run of HammerCTLog in which no operation fails and the context is
\* not cancelled has made exactly cfg.Operations calls of retryOneOp when it
\* reports completion.
C33_PerformsAllOperations ==
  (hpc = "completed" /\ herrs = 0 /\ ~hctxDone) => hcalls = hOperations

\* s.sth has no nil entry before a non-nil one.
NilsLast(s) ==
  \A i, j \in 0..(sthCount - 1) : (i < j /\ s[i] = NilSTH) => s[j] = NilSTH

\* A getSTH operation whose GetSTH call fails.
FailingGetSTH ==
  \E limited \in BOOLEAN, rsp \in GetSTHResponses, res \in OpResults,
     left \in BOOLEAN :
    /\ performOp(limited, rsp, res, left)
    /\ ~hctxDone /\ ~limited /\ hep = GetSTHName /\ rsp.err

\* C34: after any sequence of getSTH operations sth[0] is the STH obtained
\* last, no nil entry of sth comes before a non-nil one, and a failing
\* getSTH leaves sth as it was.
C34_SthNewestFirst ==
  /\ [](hlast # NilSTH => hsth[0] = hlast)
  /\ []NilsLast(hsth)
  /\ [][FailingGetSTH => hsth' = hsth]_vars

=============================================================================
